---- MODULE Spec2Model ----
(***************************************************************************)
(* Workflow reconciliation of n8n-atom: useWorkflowSync.ts (syncWorkflow,  *)
(* findWorkflowByName, hasWorkflowChanges) running against the workflows   *)
(* store, driven by the window message handler of App.vue.                 *)
(***************************************************************************)
EXTENDS Naturals, Sequences, FiniteSets, TLC

(***************************************************************************)
(* Bounds of the model.                                                    *)
(***************************************************************************)
\* Number of syncWorkflow invocations a behaviour starts.
MaxCalls == 2
\* Number of workflows persisted before the first invocation.
MaxSeed == 2

(***************************************************************************)
(* JavaScript values.                                                      *)
(***************************************************************************)
\* `undefined` (also: a property that is absent).
Undef == "undefined"
\* A value JSON.stringify cannot serialise (a cyclic reference, a BigInt).
Cyclic == "cyclic"

\* Workflow names are strings: sequences of characters.
NameA == <<"A">>
Namea == <<"a">>
NameAB == <<"A", "B">>

\* The nodes the documents are built from.  Node1b differs from Node1 only
\* in `notes`, a field hasWorkflowChanges does not project; Node1p differs
\* from Node1 in `parameters`; NodeX holds an unserialisable parameter value.
Node1 == [name |-> "n1", type |-> "set", typeVersion |-> "1", position |-> "p0",
          parameters |-> "pa", credentials |-> Undef, disabled |-> Undef,
          notes |-> "x"]
Node1b == [Node1 EXCEPT !.notes = "y"]
Node1p == [Node1 EXCEPT !.parameters = "pb"]
Node2 == [name |-> "n2", type |-> "http", typeVersion |-> "2", position |-> "p1",
          parameters |-> "pa", credentials |-> "cr", disabled |-> "true",
          notes |-> "x"]
NodeX == [Node1 EXCEPT !.parameters = Cyclic]

\* A connection map is a JavaScript object: its entries in insertion order.
ConnNone == << >>
Conn12 == << <<"n1", "n2">> >>

\* An optional value: `None` for undefined/null/absent, `Some(v)` otherwise.
None == << >>
Some(v) == <<v>>
\* JavaScript `m || d` on an optional object or array (never falsy when present).
OrElse(m, d) == IF m = None THEN d ELSE m[1]

(***************************************************************************)
(* JSON.stringify, as far as hasWorkflowChanges depends on it: a property  *)
(* whose value is undefined is left out, properties are written in         *)
(* insertion order, array elements in index order, and an unserialisable   *)
(* value makes the call throw.  A string is a sequence of tokens.          *)
(***************************************************************************)
Text(t) == [ok |-> TRUE, text |-> t]
Throws == [ok |-> FALSE, text |-> << >>]

\* The object literal of the `map` callbacks, in the order the literal
\* lists its properties.
ProjectedKeys == <<"name", "type", "typeVersion", "position", "parameters",
                   "credentials", "disabled">>

ProjectNode(n) == [k \in {ProjectedKeys[i] : i \in 1..Len(ProjectedKeys)} |-> n[k]]

RECURSIVE StringifyFields(_, _)
StringifyFields(obj, keys) ==
    IF keys = << >> THEN Text(<< >>)
    ELSE LET k == Head(keys)
             rest == StringifyFields(obj, Tail(keys))
         IN  IF obj[k] = Cyclic \/ ~rest.ok THEN Throws
             ELSE IF obj[k] = Undef THEN rest
             ELSE Text(<<k, ":", obj[k], ",">> \o rest.text)

StringifyObject(obj, keys) ==
    LET body == StringifyFields(obj, keys)
    IN  IF body.ok THEN Text(<<"{">> \o body.text \o <<"}">>) ELSE Throws

RECURSIVE StringifyNodes(_)
StringifyNodes(list) ==
    IF list = << >> THEN Text(<< >>)
    ELSE LET first == StringifyObject(Head(list), ProjectedKeys)
             rest == StringifyNodes(Tail(list))
         IN  IF first.ok /\ rest.ok THEN Text(first.text \o rest.text) ELSE Throws

RECURSIVE StringifyConnections(_)
StringifyConnections(conns) ==
    IF conns = << >> THEN Text(<< >>)
    ELSE LET e == Head(conns)
             rest == StringifyConnections(Tail(conns))
         IN  IF e[2] = Cyclic \/ ~rest.ok THEN Throws
             ELSE Text(<<e[1], ":", e[2], ",">> \o rest.text)

\* nodes.map(n => ({name: n.name, ...}))
MapProject(list) == [i \in 1..Len(list) |-> ProjectNode(list[i])]

\* hasWorkflowChanges with the node comparison reading the wrong variable:
\* the existing nodes are compared with the incoming connections.
hasWorkflowChangesWrongOperand(existing, incoming) ==
    LET existingNodesList == OrElse(existing.nodes, << >>)
        incomingNodesList == OrElse(incoming.nodes, << >>)
        existingNodes == StringifyNodes(MapProject(existingNodesList))
        incomingNodes == StringifyNodes(MapProject(incomingNodesList))
        existingConnections == StringifyConnections(OrElse(existing.connections, << >>))
        incomingConnections == StringifyConnections(OrElse(incoming.connections, << >>))
    IN  IF Len(existingNodesList) # Len(incomingNodesList) THEN TRUE
        ELSE IF ~existingNodes.ok \/ ~incomingNodes.ok THEN TRUE
        ELSE IF ~existingConnections.ok \/ ~incomingConnections.ok THEN TRUE
        ELSE IF existingNodes # incomingConnections THEN TRUE
        ELSE IF existingConnections # incomingConnections THEN TRUE
        ELSE FALSE

\* hasWorkflowChanges without its connection comparison.
hasWorkflowChangesNodesOnly(existing, incoming) ==
    LET existingNodesList == OrElse(existing.nodes, << >>)
        incomingNodesList == OrElse(incoming.nodes, << >>)
        existingNodes == StringifyNodes(MapProject(existingNodesList))
        incomingNodes == StringifyNodes(MapProject(incomingNodesList))
    IN  IF Len(existingNodesList) # Len(incomingNodesList) THEN TRUE
        ELSE IF ~existingNodes.ok \/ ~incomingNodes.ok THEN TRUE
        ELSE IF existingNodes # incomingNodes THEN TRUE
        ELSE FALSE

\* hasWorkflowChanges comparing the nodes and the connection entries as
\* unordered collections.
hasWorkflowChangesUnordered(existing, incoming) ==
    LET existingNodesList == OrElse(existing.nodes, << >>)
        incomingNodesList == OrElse(incoming.nodes, << >>)
        existingConnectionsMap == OrElse(existing.connections, << >>)
        incomingConnectionsMap == OrElse(incoming.connections, << >>)
        existingNodes == StringifyNodes(MapProject(existingNodesList))
        incomingNodes == StringifyNodes(MapProject(incomingNodesList))
        existingConnections == StringifyConnections(existingConnectionsMap)
        incomingConnections == StringifyConnections(incomingConnectionsMap)
        Members(list) == {list[i] : i \in 1..Len(list)}
    IN  IF Len(existingNodesList) # Len(incomingNodesList) THEN TRUE
        ELSE IF ~existingNodes.ok \/ ~incomingNodes.ok THEN TRUE
        ELSE IF Members(MapProject(existingNodesList))
                   # Members(MapProject(incomingNodesList)) THEN TRUE
        ELSE IF ~existingConnections.ok \/ ~incomingConnections.ok THEN TRUE
        ELSE IF Members(existingConnectionsMap) # Members(incomingConnectionsMap) THEN TRUE
        ELSE FALSE

\* hasWorkflowChanges with a catch block that returns false.
hasWorkflowChangesFailClosed(existing, incoming) ==
    LET existingNodesList == OrElse(existing.nodes, << >>)
        incomingNodesList == OrElse(incoming.nodes, << >>)
        existingNodes == StringifyNodes(MapProject(existingNodesList))
        incomingNodes == StringifyNodes(MapProject(incomingNodesList))
        existingConnections == StringifyConnections(OrElse(existing.connections, << >>))
        incomingConnections == StringifyConnections(OrElse(incoming.connections, << >>))
    IN  IF Len(existingNodesList) # Len(incomingNodesList) THEN TRUE
        ELSE IF ~existingNodes.ok \/ ~incomingNodes.ok THEN FALSE
        ELSE IF existingNodes # incomingNodes THEN TRUE
        ELSE IF ~existingConnections.ok \/ ~incomingConnections.ok THEN FALSE
        ELSE IF existingConnections # incomingConnections THEN TRUE
        ELSE FALSE

(***************************************************************************)
(* hasWorkflowChanges(existing, incoming)                                  *)
(***************************************************************************)
hasWorkflowChanges(existing, incoming) ==
    LET existingNodesList == OrElse(existing.nodes, << >>)
        incomingNodesList == OrElse(incoming.nodes, << >>)
        existingNodes == StringifyNodes(MapProject(existingNodesList))
        incomingNodes == StringifyNodes(MapProject(incomingNodesList))
        existingConnections == StringifyConnections(OrElse(existing.connections, << >>))
        incomingConnections == StringifyConnections(OrElse(incoming.connections, << >>))
    IN  IF Len(existingNodesList) # Len(incomingNodesList) THEN TRUE
        ELSE IF ~existingNodes.ok \/ ~incomingNodes.ok THEN TRUE
        ELSE IF existingNodes # incomingNodes THEN TRUE
        ELSE IF ~existingConnections.ok \/ ~incomingConnections.ok THEN TRUE
        ELSE IF existingConnections # incomingConnections THEN TRUE
        ELSE FALSE

(***************************************************************************)
(* The documents a workflowSync message can carry (WorkflowSyncData) and   *)
(* the workflows persisted before the first message.                       *)
(***************************************************************************)
DocNames == {NameA, Namea}
\* nodes and connections of a document.
DocBodies == { <<<<Node1>>, ConnNone>>, <<<<Node1p>>, ConnNone>>, <<<<Node1>>, Conn12>>,
               <<<<Node1, Node2>>, Conn12>>, <<<<NodeX>>, ConnNone>> }
\* settings and pinData of a document: opaque maps, both optional; "{}" is
\* the empty map.
DocExtras == { <<Undef, Undef>>, <<"s1", "pin1">> }

Docs == { [name |-> n, nodes |-> Some(b[1]), connections |-> Some(b[2]),
           settings |-> e[1], pinData |-> e[2]]
          : n \in DocNames, b \in DocBodies, e \in DocExtras }

\* The first differs from a document's <<Node1>> only in the nodes' notes.
SeedWorkflows ==
    { [name |-> NameA, nodes |-> Some(<<Node1b>>), connections |-> Some(ConnNone),
       settings |-> "s2", pinData |-> "pin0"],
      [name |-> NameAB, nodes |-> Some(<<Node2>>), connections |-> Some(Conn12),
       settings |-> "{}", pinData |-> Undef] }

\* A persisted workflow (IWorkflowDb): the document plus the id the store gave it.
WithId(w, id) == [id |-> id, name |-> w.name, nodes |-> w.nodes,
                  connections |-> w.connections, settings |-> w.settings,
                  pinData |-> w.pinData]

SeedStores ==
    UNION { { [i \in 1..n |-> WithId(f[i], i)] : f \in [1..n -> SeedWorkflows] }
            : n \in 0..MaxSeed }

(***************************************************************************)
(* The workflows store (workflows.store): searchWorkflows,                 *)
(* createNewWorkflow, updateWorkflow.  Records are kept in creation order  *)
(* and the id of a record is its position.                                 *)
(***************************************************************************)
Lower(c) == IF c = "A" THEN "a" ELSE IF c = "B" THEN "b" ELSE c
LowerCase(str) == [i \in 1..Len(str) |-> Lower(str[i])]
Includes(hay, needle) ==
    \E i \in 1..(Len(hay) + 1) :
        /\ i + Len(needle) - 1 <= Len(hay)
        /\ SubSeq(hay, i, i + Len(needle) - 1) = needle

\* searchWorkflows({query}): every workflow whose name contains the query,
\* letter case ignored.
searchWorkflows(st, query) ==
    SelectSeq(st, LAMBDA w : Includes(LowerCase(w.name), LowerCase(query)))

\* createNewWorkflow(data): a new record with a fresh id.
createNewWorkflow(st, data) ==
    [id |-> Len(st) + 1, name |-> data.name, nodes |-> data.nodes,
     connections |-> data.connections, settings |-> data.settings,
     pinData |-> Undef]

\* updateWorkflow(id, data): the record with the fields of data that are
\* defined written over it; id and name stay.
updateWorkflow(st, id, data) ==
    [st[id] EXCEPT !.nodes = IF data.nodes = None THEN @ ELSE data.nodes,
                   !.connections = IF data.connections = None THEN @ ELSE data.connections,
                   !.settings = IF data.settings = Undef THEN @ ELSE data.settings,
                   !.pinData = IF data.pinData = Undef THEN @ ELSE data.pinData]

(***************************************************************************)
(* useWorkflowSync                                                         *)
(***************************************************************************)
\* FindExact looking at the first search result only.
FindExactFirstOnly(workflows, name) ==
    IF workflows # << >> /\ workflows[1].name = name THEN Some(workflows[1]) ELSE None

\* FindExact comparing the names without regard to letter case.
FindExactIgnoreCase(workflows, name) ==
    IF \E i \in 1..Len(workflows) : LowerCase(workflows[i].name) = LowerCase(name)
    THEN LET first == CHOOSE i \in 1..Len(workflows) :
                          /\ LowerCase(workflows[i].name) = LowerCase(name)
                          /\ \A j \in 1..(i - 1) :
                                 LowerCase(workflows[j].name) # LowerCase(name)
         IN  Some(workflows[first])
    ELSE None

\* workflows.find((w) => w.name === name) || null
FindExact(workflows, name) ==
    IF \E i \in 1..Len(workflows) : workflows[i].name = name
    THEN LET first == CHOOSE i \in 1..Len(workflows) :
                          /\ workflows[i].name = name
                          /\ \A j \in 1..(i - 1) : workflows[j].name # name
         IN  Some(workflows[first])
    ELSE None

\* The outcome of an awaited searchWorkflows call.
NotSearched == [state |-> "none", workflows |-> << >>]
Searching == [state |-> "pending", workflows |-> << >>]
Resolved(workflows) == [state |-> "resolved", workflows |-> workflows]
Rejected == [state |-> "rejected", workflows |-> << >>]

\* findWorkflowByName, from the outcome of its search on: the catch block
\* returns null when the search rejected.
findWorkflowByName(outcome, name) ==
    IF outcome.state = "rejected" THEN None ELSE FindExact(outcome.workflows, name)

\* UpdateCall with pinData left out of the update.
UpdateCallNoPinData(existingWorkflow, workflowData) ==
    [op |-> "update", id |-> existingWorkflow.id, name |-> Undef,
     nodes |-> workflowData.nodes, connections |-> workflowData.connections,
     settings |-> workflowData.settings, pinData |-> Undef]

\* The argument of workflowsStore.updateWorkflow.
UpdateCall(existingWorkflow, workflowData) ==
    [op |-> "update", id |-> existingWorkflow.id, name |-> Undef,
     nodes |-> workflowData.nodes, connections |-> workflowData.connections,
     settings |-> workflowData.settings, pinData |-> workflowData.pinData]

\* CreateCall without the `|| {}` default of settings.
CreateCallNoDefault(workflowData) ==
    [op |-> "create", id |-> 0, name |-> workflowData.name,
     nodes |-> workflowData.nodes, connections |-> workflowData.connections,
     settings |-> workflowData.settings, pinData |-> Undef]

\* The argument of workflowsStore.createNewWorkflow (it carries no pinData).
CreateCall(workflowData) ==
    [op |-> "create", id |-> 0, name |-> workflowData.name,
     nodes |-> workflowData.nodes, connections |-> workflowData.connections,
     settings |-> IF workflowData.settings = Undef THEN "{}" ELSE workflowData.settings,
     pinData |-> Undef]

\* SyncBranch with the test of hasWorkflowChanges left out.
SyncBranchAlwaysUpdates(existingWorkflow, workflowData) ==
    IF existingWorkflow # None THEN "updated" ELSE "created"

\* The branch syncWorkflow takes once findWorkflowByName has returned.
SyncBranch(existingWorkflow, workflowData) ==
    IF existingWorkflow # None
    THEN IF hasWorkflowChanges(existingWorkflow[1], workflowData)
         THEN "updated" ELSE "unchanged"
    ELSE "created"

\* SyncWrites with the update branch falling through to the create.
SyncWritesFallThrough(existingWorkflow, workflowData) ==
    LET branch == SyncBranch(existingWorkflow, workflowData)
    IN  IF branch = "updated"
        THEN <<UpdateCall(existingWorkflow[1], workflowData), CreateCall(workflowData)>>
        ELSE IF branch = "created" THEN <<CreateCall(workflowData)>>
        ELSE << >>

\* The store writes syncWorkflow awaits on that branch, in order.
SyncWrites(existingWorkflow, workflowData) ==
    LET branch == SyncBranch(existingWorkflow, workflowData)
    IN  IF branch = "updated" THEN <<UpdateCall(existingWorkflow[1], workflowData)>>
        ELSE IF branch = "created" THEN <<CreateCall(workflowData)>>
        ELSE << >>

(***************************************************************************)
(* State.  Each workflowSync message runs handleVSCodeWorkflowSync, which  *)
(* awaits syncWorkflow; the handler is async and the listener does not     *)
(* queue, so a second message can be handled while the first invocation is *)
(* suspended at an await.  Procs are the invocations that can be in flight *)
(* together.                                                               *)
(***************************************************************************)
Procs == {1, 2}

VARIABLES
    store,        \* the persisted workflows, in creation order
    pc,           \* where each invocation of syncWorkflow is suspended
    doc,          \* its workflowData
    searched,     \* the outcome of its searchWorkflows call
    existing,     \* its existingWorkflow
    pending,      \* the store writes it has still to be answered, first one in flight
    calls,        \* every store write it issued so far
    result,       \* the WorkflowSyncResult it returned
    added,        \* records the store persisted for it
    started,      \* invocations started so far
    solo,         \* no other invocation was in flight during this one
    prev,         \* the invocation that returned last: document, action, solo, search
    prevAtStart,  \* prev when this invocation started
    seed,         \* the store before the first invocation
    overlapped,   \* two invocations have been in flight together
    searchFailed  \* a search has rejected

syncVars == <<store, pc, doc, searched, existing, pending, calls, result, added,
              started, solo, prev, prevAtStart, seed, overlapped, searchFailed>>

(***************************************************************************)
(* The other components of the bridge are separate state machines; each    *)
(* has its own variables, which the other machines leave alone.            *)
(***************************************************************************)
VARIABLES
    cmpExisting,  \* hasWorkflowChanges: its argument `existing`
    cmpIncoming,  \* its argument `incoming`
    cmpResult     \* what the call returned, and the branch syncWorkflow takes on it

cmpVars == <<cmpExisting, cmpIncoming, cmpResult>>

VARIABLES
    hPc,          \* where each invocation of handleVSCodeWorkflowSync is
    hMsg,         \* its messageEvent.data
    hCalled,      \* it has called syncWorkflow
    hResult,      \* the WorkflowSyncResult syncWorkflow resolved with
    hNav,         \* how navigateToWorkflow went
    hRefresh,     \* how the refresh of the workflow in the UI went
    hReplies,     \* the messages it posted to the host, oldest first
    hToasts,      \* the toasts it showed
    hasRouter     \* window.__n8n_router__ is set

msgVars == <<hPc, hMsg, hCalled, hResult, hNav, hRefresh, hReplies, hToasts, hasRouter>>

VARIABLES
    serInput,     \* serializeWorkflowData: its argument workflowData
    serResult     \* what the call returned

serVars == <<serInput, serResult>>

VARIABLES
    pEnv,         \* the window syncWorkflowToFile runs in
    pArgs,        \* syncWorkflowToFile: its arguments
    pOutcome      \* what the call did

postVars == <<pEnv, pArgs, pOutcome>>

VARIABLES
    aWorkflow,    \* workflowsStore.workflow
    aDirty,       \* uiStore.stateIsDirty
    lastSyncedData,\* the string the watcher compared last
    aTimer,       \* the debounce timer is armed
    aLastPost,    \* the last message automatic sync posted
    aPrevPost,    \* the one before it
    aEdited,      \* the workflow was last changed by a local edit of name, nodes, connections or settings
    aPostedSince  \* automatic sync has posted since that edit

autoVars == <<aWorkflow, aDirty, lastSyncedData, aTimer, aLastPost, aPrevPost, aEdited, aPostedSince>>

VARIABLES
    isLocal,      \* globalConfig.license.isLocal
    laUsers,      \* the user table, by id
    laProjects,   \* the project table
    laRelations,  \* the project relation table
    laPc,         \* where ensureLocalAdminExists is
    laDraft,      \* the user entity it holds in memory
    laWrites,     \* the repository writes of the current run, oldest first
    laRuns,       \* startups so far
    laErrored,    \* the current run logged an error
    laPrevOk,     \* the run before the current one returned without an error
    laStart,      \* the tables when the current run started
    laThrew       \* an error left ensureLocalAdminExists

adminVars == <<isLocal, laUsers, laProjects, laRelations, laPc, laDraft, laWrites, laRuns, laErrored, laPrevOk, laStart, laThrew>>

VARIABLES
    gRedirect,    \* to.query.redirect
    gOrigin,      \* window.location.origin
    gNext,        \* the arguments next was called with, oldest first
    gState        \* where guestMiddleware is

guestVars == <<gRedirect, gOrigin, gNext, gState>>

VARIABLES
    relEnv,       \* process.env and the machine release-portable runs on
    relPc,        \* the step release-portable is at
    relLog,       \* the commands and prompts the script has run, oldest first
    relExit       \* the exit code of the script

relVars == <<relEnv, relPc, relLog, relExit>>

VARIABLES
    xFlags,       \* flags.file
    xDisk,        \* the file at the resolved path
    xStored,      \* the rows of the workflow table
    xShared,      \* the rows of the shared workflow table
    xPc,          \* the statement run() is at
    xError,       \* what run() threw
    xWorkflowData,\* the local workflowData of run()
    xRunData,     \* the runData handed to workflowRunner.run
    xLogged,      \* what run() printed with this.log
    xCreated      \* the ids of the rows this run saved

execVars == <<xFlags, xDisk, xStored, xShared, xPc, xError, xWorkflowData, xRunData, xLogged, xCreated>>

VARIABLES
    pubScript,    \* which publish script runs
    pubToken,     \* the GitHub token getGitHubToken finds
    pubDirty,     \* git status lists a changed package.json
    pubFiles,     \* the package.json of every package directory
    pubNpmrc,     \* the .npmrc of every package directory
    originalContents,\* the Map of path and original content, in insertion order
    modifiedNpmrcFiles,\* the Map of .npmrc path and original content
    createdNpmrcFiles,\* the paths of the .npmrc files the script created
    pubPc,        \* the step main() is at
    pubI,         \* the entry of originalContents the running loop is at
    pubCounts,    \* successCount, skipCount and failCount
    pubBefore     \* the files as they were when the script started

pubVars == <<pubScript, pubToken, pubDirty, pubFiles, pubNpmrc, originalContents, modifiedNpmrcFiles, createdNpmrcFiles, pubPc, pubI, pubCounts, pubBefore>>

vars == <<syncVars, cmpVars, msgVars, serVars, postVars, autoVars, adminVars, guestVars, relVars, execVars, pubVars>>

otherThanSync == <<cmpVars, msgVars, serVars, postVars, autoVars, adminVars, guestVars, relVars, execVars, pubVars>>
otherThanCmp == <<syncVars, msgVars, serVars, postVars, autoVars, adminVars, guestVars, relVars, execVars, pubVars>>
otherThanMsg == <<syncVars, cmpVars, serVars, postVars, autoVars, adminVars, guestVars, relVars, execVars, pubVars>>
otherThanSer == <<syncVars, cmpVars, msgVars, postVars, autoVars, adminVars, guestVars, relVars, execVars, pubVars>>
otherThanPost == <<syncVars, cmpVars, msgVars, serVars, autoVars, adminVars, guestVars, relVars, execVars, pubVars>>
otherThanAuto == <<syncVars, cmpVars, msgVars, serVars, postVars, adminVars, guestVars, relVars, execVars, pubVars>>
otherThanAdmin == <<syncVars, cmpVars, msgVars, serVars, postVars, autoVars, guestVars, relVars, execVars, pubVars>>
otherThanGuest == <<syncVars, cmpVars, msgVars, serVars, postVars, autoVars, adminVars, relVars, execVars, pubVars>>
otherThanRel == <<syncVars, cmpVars, msgVars, serVars, postVars, autoVars, adminVars, guestVars, execVars, pubVars>>
otherThanExec == <<syncVars, cmpVars, msgVars, serVars, postVars, autoVars, adminVars, guestVars, relVars, pubVars>>
otherThanPub == <<syncVars, cmpVars, msgVars, serVars, postVars, autoVars, adminVars, guestVars, relVars, execVars>>

Handlers == {1, 2}

\* No invocation of syncWorkflow exists.
SyncParked ==
    /\ store = << >>
    /\ seed = << >>
    /\ pc = [p \in Procs |-> "idle"]
    /\ doc = [p \in Procs |-> None]
    /\ searched = [p \in Procs |-> NotSearched]
    /\ existing = [p \in Procs |-> None]
    /\ pending = [p \in Procs |-> << >>]
    /\ calls = [p \in Procs |-> << >>]
    /\ result = [p \in Procs |-> None]
    /\ added = [p \in Procs |-> 0]
    /\ started = 0
    /\ solo = [p \in Procs |-> TRUE]
    /\ prev = None
    /\ prevAtStart = [p \in Procs |-> None]
    /\ overlapped = FALSE
    /\ searchFailed = FALSE

\* No call of hasWorkflowChanges is being examined.
CmpParked ==
    /\ cmpExisting = None
    /\ cmpIncoming = None
    /\ cmpResult = None

\* No message has arrived.
MsgParked ==
    /\ hPc = [h \in Handlers |-> "idle"]
    /\ hMsg = [h \in Handlers |-> None]
    /\ hCalled = [h \in Handlers |-> FALSE]
    /\ hResult = [h \in Handlers |-> None]
    /\ hNav = [h \in Handlers |-> "none"]
    /\ hRefresh = [h \in Handlers |-> "none"]
    /\ hReplies = [h \in Handlers |-> << >>]
    /\ hToasts = [h \in Handlers |-> << >>]
    /\ hasRouter = TRUE

\* No call of serializeWorkflowData is being examined.
SerParked ==
    /\ serInput = None
    /\ serResult = None

\* No call of syncWorkflowToFile is being examined.
PostParked ==
    /\ pEnv = None
    /\ pArgs = None
    /\ pOutcome = None

\* setupAutoSync has not run.
AutoParked ==
    /\ aWorkflow = None
    /\ aDirty = FALSE
    /\ lastSyncedData = None
    /\ aTimer = FALSE
    /\ aLastPost = None
    /\ aPrevPost = None
    /\ aEdited = FALSE
    /\ aPostedSince = FALSE

\* ensureLocalAdminExists has not been called.
AdminParked ==
    /\ isLocal = FALSE
    /\ laUsers = << >>
    /\ laProjects = {}
    /\ laRelations = {}
    /\ laPc = "idle"
    /\ laDraft = None
    /\ laWrites = << >>
    /\ laRuns = 0
    /\ laErrored = FALSE
    /\ laPrevOk = FALSE
    /\ laStart = None
    /\ laThrew = FALSE

\* No navigation to a guest-only page has started.
GuestParked ==
    /\ gRedirect = None
    /\ gOrigin = None
    /\ gNext = << >>
    /\ gState = "idle"

\* release-portable has not been started.
RelParked ==
    /\ relEnv = None
    /\ relPc = "start"
    /\ relLog = << >>
    /\ relExit = None

\* execute-file has not been invoked.
ExecParked ==
    /\ xFlags = None
    /\ xDisk = None
    /\ xStored = {}
    /\ xShared = {}
    /\ xPc = "idle"
    /\ xError = None
    /\ xWorkflowData = None
    /\ xRunData = None
    /\ xLogged = << >>
    /\ xCreated = {}

\* No publish script has been started.
PubParked ==
    /\ pubScript = "none"
    /\ pubToken = None
    /\ pubDirty = FALSE
    /\ pubFiles = << >>
    /\ pubNpmrc = << >>
    /\ originalContents = << >>
    /\ modifiedNpmrcFiles = << >>
    /\ createdNpmrcFiles = << >>
    /\ pubPc = "idle"
    /\ pubI = 0
    /\ pubCounts = <<0, 0, 0>>
    /\ pubBefore = << >>

\* Every machine but one is at rest.
OnlySync == CmpParked /\ MsgParked /\ SerParked /\ PostParked /\ AutoParked /\ AdminParked /\ GuestParked /\ RelParked /\ ExecParked /\ PubParked
OnlyCmp == SyncParked /\ MsgParked /\ SerParked /\ PostParked /\ AutoParked /\ AdminParked /\ GuestParked /\ RelParked /\ ExecParked /\ PubParked
OnlyMsg == SyncParked /\ CmpParked /\ SerParked /\ PostParked /\ AutoParked /\ AdminParked /\ GuestParked /\ RelParked /\ ExecParked /\ PubParked
OnlySer == SyncParked /\ CmpParked /\ MsgParked /\ PostParked /\ AutoParked /\ AdminParked /\ GuestParked /\ RelParked /\ ExecParked /\ PubParked
OnlyPost == SyncParked /\ CmpParked /\ MsgParked /\ SerParked /\ AutoParked /\ AdminParked /\ GuestParked /\ RelParked /\ ExecParked /\ PubParked
OnlyAuto == SyncParked /\ CmpParked /\ MsgParked /\ SerParked /\ PostParked /\ AdminParked /\ GuestParked /\ RelParked /\ ExecParked /\ PubParked
OnlyAdmin == SyncParked /\ CmpParked /\ MsgParked /\ SerParked /\ PostParked /\ AutoParked /\ GuestParked /\ RelParked /\ ExecParked /\ PubParked
OnlyGuest == SyncParked /\ CmpParked /\ MsgParked /\ SerParked /\ PostParked /\ AutoParked /\ AdminParked /\ RelParked /\ ExecParked /\ PubParked
OnlyRel == SyncParked /\ CmpParked /\ MsgParked /\ SerParked /\ PostParked /\ AutoParked /\ AdminParked /\ GuestParked /\ ExecParked /\ PubParked
OnlyExec == SyncParked /\ CmpParked /\ MsgParked /\ SerParked /\ PostParked /\ AutoParked /\ AdminParked /\ GuestParked /\ RelParked /\ PubParked
OnlyPub == SyncParked /\ CmpParked /\ MsgParked /\ SerParked /\ PostParked /\ AutoParked /\ AdminParked /\ GuestParked /\ RelParked /\ ExecParked

InFlight(p) == pc[p] \in {"search", "write"}

Init ==
    /\ store \in SeedStores
    /\ seed = store
    /\ pc = [p \in Procs |-> "idle"]
    /\ doc = [p \in Procs |-> None]
    /\ searched = [p \in Procs |-> NotSearched]
    /\ existing = [p \in Procs |-> None]
    /\ pending = [p \in Procs |-> << >>]
    /\ calls = [p \in Procs |-> << >>]
    /\ result = [p \in Procs |-> None]
    /\ added = [p \in Procs |-> 0]
    /\ started = 0
    /\ solo = [p \in Procs |-> TRUE]
    /\ prev = None
    /\ prevAtStart = [p \in Procs |-> None]
    /\ overlapped = FALSE
    /\ searchFailed = FALSE
    /\ OnlySync

\* SyncStart behind a lock: a message is not handled while another
\* invocation is in flight.
SyncStartSerialised(p, d) ==
    /\ pc[p] = "idle"
    /\ \A q \in Procs : ~InFlight(q)
    /\ \A q \in Procs : q < p => pc[q] # "idle"
    /\ started < MaxCalls
    /\ started' = started + 1
    /\ pc' = [pc EXCEPT ![p] = "search"]
    /\ doc' = [doc EXCEPT ![p] = Some(d)]
    /\ searched' = [searched EXCEPT ![p] = Searching]
    /\ solo' = [solo EXCEPT ![p] = TRUE]
    /\ prevAtStart' = [prevAtStart EXCEPT ![p] = prev]
    /\ UNCHANGED <<store, existing, pending, calls, result, added, prev, seed,
                   searchFailed, overlapped>>
    /\ UNCHANGED otherThanSync

\* syncWorkflow(workflowData) up to `await findWorkflowByName`, which has
\* issued workflowsStore.searchWorkflows({ query: name }).  The slots are
\* interchangeable: an invocation takes the lowest free one.
SyncStart(p, d) ==
    /\ pc[p] = "idle"
    /\ \A q \in Procs : q < p => pc[q] # "idle"
    /\ started < MaxCalls
    /\ started' = started + 1
    /\ pc' = [pc EXCEPT ![p] = "search"]
    /\ doc' = [doc EXCEPT ![p] = Some(d)]
    /\ searched' = [searched EXCEPT ![p] = Searching]
    /\ LET alone == \A q \in Procs \ {p} : ~InFlight(q)
       IN  /\ solo' = [q \in Procs |-> IF q = p THEN alone
                                       ELSE IF InFlight(q) THEN FALSE ELSE solo[q]]
           /\ overlapped' = (overlapped \/ ~alone)
    /\ prevAtStart' = [prevAtStart EXCEPT ![p] = prev]
    /\ UNCHANGED <<store, existing, pending, calls, result, added, prev, seed,
                   searchFailed>>
    /\ UNCHANGED otherThanSync

\* What syncWorkflow does once findWorkflowByName has returned `found`:
\* it returns 'unchanged' at once or issues its store write.
AfterFind(p, outcome) ==
    LET found == findWorkflowByName(outcome, doc[p][1].name)
        writes == SyncWrites(found, doc[p][1])
    IN  /\ searched' = [searched EXCEPT ![p] = outcome]
        /\ existing' = [existing EXCEPT ![p] = found]
        /\ pending' = [pending EXCEPT ![p] = writes]
        /\ calls' = [calls EXCEPT ![p] = IF writes = << >> THEN @ ELSE <<Head(writes)>>]
        /\ IF writes = << >>
           THEN /\ pc' = [pc EXCEPT ![p] = "done"]
                /\ result' = [result EXCEPT ![p] =
                                 Some([action |-> "unchanged", workflow |-> found[1]])]
                /\ prev' = Some([doc |-> doc[p][1], action |-> "unchanged",
                                 solo |-> solo[p], search |-> outcome.state])
           ELSE /\ pc' = [pc EXCEPT ![p] = "write"]
                /\ UNCHANGED <<result, prev>>

\* The search resolves with the workflows matching the query.
SearchResolve(p) ==
    /\ pc[p] = "search"
    /\ AfterFind(p, Resolved(searchWorkflows(store, doc[p][1].name)))
    /\ UNCHANGED <<store, doc, added, started, solo, prevAtStart, seed, overlapped,
                   searchFailed>>
    /\ UNCHANGED otherThanSync

\* SearchReject without the try/catch of findWorkflowByName: the rejection
\* propagates out of syncWorkflow.
SearchRejectPropagates(p) ==
    /\ pc[p] = "search"
    /\ searchFailed' = TRUE
    /\ searched' = [searched EXCEPT ![p] = Rejected]
    /\ pc' = [pc EXCEPT ![p] = "failed"]
    /\ prev' = None
    /\ UNCHANGED <<store, doc, existing, pending, calls, result, added, started, solo,
                   prevAtStart, seed, overlapped>>
    /\ UNCHANGED otherThanSync

\* The search rejects: the catch block of findWorkflowByName returns null.
SearchReject(p) ==
    /\ pc[p] = "search"
    /\ searchFailed' = TRUE
    /\ AfterFind(p, Rejected)
    /\ UNCHANGED <<store, doc, added, started, solo, prevAtStart, seed, overlapped>>
    /\ UNCHANGED otherThanSync

\* What follows an answered store write: the next write, or the return.
AfterWrite(p, action, workflow) ==
    LET rest == Tail(pending[p])
    IN  /\ pending' = [pending EXCEPT ![p] = rest]
        /\ IF rest = << >>
           THEN /\ pc' = [pc EXCEPT ![p] = "done"]
                /\ result' = [result EXCEPT ![p] =
                                 Some([action |-> action, workflow |-> workflow])]
                /\ prev' = Some([doc |-> doc[p][1], action |-> action, solo |-> solo[p],
                                 search |-> searched[p].state])
                /\ UNCHANGED calls
           ELSE /\ calls' = [calls EXCEPT ![p] = Append(@, Head(rest))]
                /\ UNCHANGED <<pc, result, prev>>

\* createNewWorkflow resolves: the store has persisted the new workflow.
CreateResolve(p) ==
    /\ pc[p] = "write"
    /\ Head(pending[p]).op = "create"
    /\ LET newWorkflow == createNewWorkflow(store, Head(pending[p]))
       IN  /\ store' = Append(store, newWorkflow)
           /\ AfterWrite(p, "created", newWorkflow)
    /\ added' = [added EXCEPT ![p] = @ + 1]
    /\ UNCHANGED <<doc, searched, existing, started, solo, prevAtStart, seed,
                   overlapped, searchFailed>>
    /\ UNCHANGED otherThanSync

\* updateWorkflow resolves: the store has written the record in place.
UpdateResolve(p) ==
    /\ pc[p] = "write"
    /\ Head(pending[p]).op = "update"
    /\ LET call == Head(pending[p])
           updated == updateWorkflow(store, call.id, call)
       IN  /\ store' = [store EXCEPT ![call.id] = updated]
           /\ AfterWrite(p, "updated", updated)
    /\ UNCHANGED <<doc, searched, existing, added, started, solo, prevAtStart, seed,
                   overlapped, searchFailed>>
    /\ UNCHANGED otherThanSync

\* A store write rejects: nothing is persisted and syncWorkflow throws.
WriteReject(p) ==
    /\ pc[p] = "write"
    /\ pc' = [pc EXCEPT ![p] = "failed"]
    /\ prev' = None
    /\ UNCHANGED <<store, doc, searched, existing, pending, calls, result, added,
                   started, solo, prevAtStart, seed, overlapped, searchFailed>>
    /\ UNCHANGED otherThanSync

\* The caller has taken the outcome; the slot is free for the next message.
Finish(p) ==
    /\ pc[p] \in {"done", "failed"}
    /\ pc' = [pc EXCEPT ![p] = "idle"]
    /\ doc' = [doc EXCEPT ![p] = None]
    /\ searched' = [searched EXCEPT ![p] = NotSearched]
    /\ existing' = [existing EXCEPT ![p] = None]
    /\ pending' = [pending EXCEPT ![p] = << >>]
    /\ calls' = [calls EXCEPT ![p] = << >>]
    /\ result' = [result EXCEPT ![p] = None]
    /\ added' = [added EXCEPT ![p] = 0]
    /\ solo' = [solo EXCEPT ![p] = TRUE]
    /\ prevAtStart' = [prevAtStart EXCEPT ![p] = None]
    /\ UNCHANGED <<store, started, prev, seed, overlapped, searchFailed>>
    /\ UNCHANGED otherThanSync

Next ==
    \/ \E p \in Procs, d \in Docs : SyncStart(p, d)
    \/ \E p \in Procs : SearchResolve(p)
    \/ \E p \in Procs : SearchReject(p)
    \/ \E p \in Procs : CreateResolve(p)
    \/ \E p \in Procs : UpdateResolve(p)
    \/ \E p \in Procs : WriteReject(p)
    \/ \E p \in Procs : Finish(p)

Spec == Init /\ [][Next]_vars

(***************************************************************************)
(* Properties.                                                             *)
(***************************************************************************)
\* The invocation has got the outcome of its search.
PastSearch(p) == pc[p] \in {"write", "done", "failed"}

\* Positions of the workflows of a list that carry exactly this name.
Named(workflows, name) == {i \in 1..Len(workflows) : workflows[i].name = name}

\* The first workflow of a non-empty selection of positions.
FirstOf(workflows, positions) ==
    workflows[CHOOSE i \in positions : \A j \in positions : i <= j]

\* The search of p resolved and returned a workflow with exactly doc's name.
Matched(p) ==
    /\ searched[p].state = "resolved"
    /\ Named(searched[p].workflows, doc[p][1].name) # {}

\* That workflow: the E of the claims.
MatchOf(p) ==
    FirstOf(searched[p].workflows, Named(searched[p].workflows, doc[p][1].name))

\* C1: when the search returns no workflow whose name equals doc.name
\* exactly, syncWorkflow issues exactly one createNewWorkflow call carrying
\* doc's name, nodes, connections and settings (the empty map when settings
\* is absent) and no updateWorkflow call, and what it returns is 'created'
\* with the workflow the store returned for that call.
C1_NoMatchCreates ==
    \A p \in Procs :
        (PastSearch(p) /\ searched[p].state = "resolved" /\ ~Matched(p)) =>
            LET d == doc[p][1]
                wanted == [name |-> d.name, nodes |-> d.nodes,
                           connections |-> d.connections,
                           settings |-> IF d.settings = Undef THEN "{}" ELSE d.settings]
            IN  /\ Len(calls[p]) = 1
                /\ calls[p][1].op = "create"
                /\ [k \in DOMAIN wanted |-> calls[p][1][k]] = wanted
                /\ pc[p] = "done" =>
                      /\ result[p][1].action = "created"
                      /\ [k \in DOMAIN wanted |-> result[p][1].workflow[k]] = wanted
                      /\ result[p][1].workflow.id \in 1..Len(store)
                      /\ store[result[p][1].workflow.id].name = d.name

\* C1 witness: a document without settings was created after a search that
\* returned candidates, none of them with the exact name.
C1_Witness ==
    \E p \in Procs :
        /\ pc[p] = "done"
        /\ searched[p].state = "resolved"
        /\ searched[p].workflows # << >>
        /\ ~Matched(p)
        /\ doc[p][1].settings = Undef
        /\ result[p][1].action = "created"

\* C2: when the search returns a workflow E with exactly doc's name and
\* hasWorkflowChanges(E, doc) is true, syncWorkflow issues exactly one
\* updateWorkflow call, addressed to E.id and carrying doc's nodes,
\* connections, settings and pinData, issues no create call and returns
\* 'updated'; the record keeps the id E.id and no record is added for it.
C2_MatchWithChangesUpdates ==
    \A p \in Procs :
        (PastSearch(p) /\ Matched(p) /\ hasWorkflowChanges(MatchOf(p), doc[p][1])) =>
            LET d == doc[p][1]
                E == MatchOf(p)
                wanted == [nodes |-> d.nodes, connections |-> d.connections,
                           settings |-> d.settings, pinData |-> d.pinData]
            IN  /\ Len(calls[p]) = 1
                /\ calls[p][1].op = "update"
                /\ calls[p][1].id = E.id
                /\ [k \in DOMAIN wanted |-> calls[p][1][k]] = wanted
                /\ added[p] = 0
                /\ store[E.id].id = E.id
                /\ store[E.id].name = E.name
                /\ pc[p] = "done" =>
                      /\ result[p][1].action = "updated"
                      /\ result[p][1].workflow.id = E.id

\* C2 witness: an update of a document with pinData has returned, the
\* search having returned other candidates besides the match.
C2_Witness ==
    \E p \in Procs :
        /\ pc[p] = "done"
        /\ Matched(p)
        /\ Len(searched[p].workflows) > 1
        /\ hasWorkflowChanges(MatchOf(p), doc[p][1])
        /\ doc[p][1].pinData # Undef
        /\ result[p][1].action = "updated"

\* C3: when the search returns a workflow E with exactly doc's name and
\* hasWorkflowChanges(E, doc) is false, syncWorkflow issues neither a create
\* nor an update call and returns E itself with action 'unchanged'.
C3_MatchWithoutChangesReturnsExisting ==
    \A p \in Procs :
        (PastSearch(p) /\ Matched(p) /\ ~hasWorkflowChanges(MatchOf(p), doc[p][1])) =>
            /\ calls[p] = << >>
            /\ added[p] = 0
            /\ pc[p] = "done"
            /\ result[p] = Some([action |-> "unchanged", workflow |-> MatchOf(p)])

\* C3 witness: an invocation returned 'unchanged' for a matched workflow.
C3_Witness ==
    \E p \in Procs :
        /\ pc[p] = "done"
        /\ Matched(p)
        /\ ~hasWorkflowChanges(MatchOf(p), doc[p][1])
        /\ result[p][1].action = "unchanged"

\* The invocation p ran alone, right after an invocation that ran alone
\* with the same document and returned.
SecondOfTwo(p) ==
    /\ pc[p] = "done"
    /\ solo[p]
    /\ prevAtStart[p] # None
    /\ prevAtStart[p][1].solo
    /\ prevAtStart[p][1].doc = doc[p][1]

\* JSON.stringify accepts the projected nodes and the connections of d.
Serialisable(d) ==
    /\ StringifyNodes(MapProject(OrElse(d.nodes, << >>))).ok
    /\ StringifyConnections(OrElse(d.connections, << >>)).ok

C5_AtMostOneWrite ==
    \A p \in Procs :
        /\ Len(calls[p]) <= 1
        /\ added[p] <= 1
        /\ added[p] <= Cardinality({i \in 1..Len(calls[p]) : calls[p][i].op = "create"})

\* C5 witness: an invocation returned after its one create was persisted
\* while a workflow of that name was stored already.
C5_Witness ==
    \E p \in Procs :
        /\ pc[p] = "done"
        /\ Len(calls[p]) = 1
        /\ added[p] = 1
        /\ Cardinality(Named(store, doc[p][1].name)) = 2

\* C6 as stated: after syncWorkflow(doc) has returned (store calls succeed,
\* no concurrent sync), the workflow it returned has doc's name, nodes,
\* connections and settings, whatever that workflow was before.
C6_ReturnedWorkflowEqualsDocument ==
    \A p \in Procs :
        (pc[p] = "done" /\ solo[p] /\ searched[p].state = "resolved") =>
            LET d == doc[p][1]
                w == result[p][1].workflow
            IN  /\ w.name = d.name
                /\ w.nodes = d.nodes
                /\ w.connections = d.connections
                /\ d.settings # Undef => w.settings = d.settings

\* Number of stored workflows with this name.
Count(workflows, name) == Cardinality(Named(workflows, name))

\* C7: while the invocations have not overlapped and every search has
\* resolved, a name the store held at most once at the start is held at
\* most once.
C7_NoDuplicateWhenSequential ==
    (~overlapped /\ ~searchFailed) =>
        \A i \in 1..Len(store) :
            Count(seed, store[i].name) <= 1 => Count(store, store[i].name) <= 1

\* C7 witness: the second of two sequential invocations for one name found
\* the workflow the first had created, among other search results.
C7_Witness ==
    /\ ~overlapped
    /\ ~searchFailed
    /\ \E p \in Procs :
          /\ pc[p] = "done"
          /\ prevAtStart[p] # None
          /\ prevAtStart[p][1].action = "created"
          /\ prevAtStart[p][1].doc.name = doc[p][1].name
          /\ Len(searched[p].workflows) > 1
          /\ result[p][1].action \in {"updated", "unchanged"}
          /\ Count(store, doc[p][1].name) = 1

\* C8: when the search rejects, findWorkflowByName returns null and
\* syncWorkflow goes on to its one create call, with no second search, and
\* returns 'created' with a new record of doc's name - also when a workflow
\* of that name was stored, which is then stored twice.
C8_SearchFailureCreates ==
    \A p \in Procs :
        (searched[p].state = "rejected") =>
            /\ pc[p] \in {"write", "done", "failed"}
            /\ existing[p] = None
            /\ Len(calls[p]) = 1
            /\ calls[p][1].op = "create"
            /\ calls[p][1].name = doc[p][1].name
            /\ pc[p] = "done" =>
                  /\ result[p][1].action = "created"
                  /\ result[p][1].workflow.id > Len(seed)
                  /\ store[result[p][1].workflow.id].name = doc[p][1].name
                  /\ Count(seed, doc[p][1].name) >= 1 => Count(store, doc[p][1].name) >= 2

\* C8 witness: a search rejected although the name was stored, and the
\* invocation returned 'created', leaving the name stored twice.
C8_Witness ==
    \E p \in Procs :
        /\ pc[p] = "done"
        /\ searched[p].state = "rejected"
        /\ Count(seed, doc[p][1].name) = 1
        /\ result[p][1].action = "created"
        /\ Count(store, doc[p][1].name) = 2

\* The lowest free slot, the one the next message is handled in.
FreeSlot(q) == pc[q] = "idle" /\ \A r \in Procs : r < q => pc[r] # "idle"

\* p and q both searched for one name and both searches resolved without a
\* workflow of that name: neither create had been persisted when the other
\* invocation searched.
BothMissed(p, q) ==
    /\ p # q
    /\ PastSearch(p) /\ PastSearch(q)
    /\ doc[p][1].name = doc[q][1].name
    /\ searched[p].state = "resolved" /\ ~Matched(p)
    /\ searched[q].state = "resolved" /\ ~Matched(q)

\* C9: nothing excludes the race - while an invocation is suspended at an
\* await, a further message is handled at once, and an answered create is
\* persisted whatever the other invocation does - and when two overlapping
\* invocations for one name both searched before either create, both issue
\* a create, both return 'created' and the name is stored twice.
C9_FindThenCreateRace ==
    /\ \A p, q \in Procs :
          (InFlight(p) /\ FreeSlot(q) /\ started < MaxCalls) =>
              \A d \in Docs : ENABLED SyncStart(q, d)
    /\ \A p \in Procs :
          (pc[p] = "write" /\ Head(pending[p]).op = "create") => ENABLED CreateResolve(p)
    /\ \A p, q \in Procs :
          BothMissed(p, q) =>
              /\ Len(calls[p]) = 1 /\ calls[p][1].op = "create"
              /\ Len(calls[q]) = 1 /\ calls[q][1].op = "create"
              /\ (pc[p] = "done" /\ pc[q] = "done") =>
                    /\ result[p][1].action = "created"
                    /\ result[q][1].action = "created"
                    /\ result[p][1].workflow.id # result[q][1].workflow.id
                    /\ Count(store, doc[p][1].name) >= 2

\* C9 witness: from an empty store and with no search failure, two
\* invocations for one name have both returned 'created' and the store
\* holds two workflows of that name.
C9_Witness ==
    /\ seed = << >>
    /\ ~searchFailed
    /\ \E p, q \in Procs :
          /\ BothMissed(p, q)
          /\ pc[p] = "done" /\ pc[q] = "done"
          /\ result[p][1].action = "created"
          /\ result[q][1].action = "created"
          /\ Count(store, doc[p][1].name) = 2

\* One step of the store as syncWorkflow may change it: no record is
\* removed, a changed record is the exact-name match of an invocation that
\* awaits its update and keeps id and name, and an added record is the one
\* record of an invocation that awaits its create, under its doc's name.
FrameStep ==
    /\ Len(store') \in {Len(store), Len(store) + 1}
    /\ \A i \in 1..Len(store) :
          store'[i] # store[i] =>
              /\ \E p \in Procs :
                    /\ pc[p] = "write"
                    /\ Head(pending[p]).op = "update"
                    /\ existing[p] # None
                    /\ existing[p][1].id = i
                    /\ store[i].name = doc[p][1].name
              /\ store'[i].id = store[i].id
              /\ store'[i].name = store[i].name
    /\ Len(store') = Len(store) + 1 =>
          \E p \in Procs :
              /\ pc[p] = "write"
              /\ Head(pending[p]).op = "create"
              /\ store'[Len(store')].name = doc[p][1].name

\* C10: syncWorkflow never deletes, and creates or updates no record other
\* than the exact-name match or its one new record: every stored workflow
\* with another name is the same before and after each of its steps.
C10_Frame == [][FrameStep]_vars

\* C10 witness: an update has returned while the store also holds a
\* workflow whose name differs from the document's only by letter case or
\* by a suffix, which the search returned too.
C10_Witness ==
    \E p \in Procs :
        /\ pc[p] = "done"
        /\ result[p][1].action = "updated"
        /\ \E i \in 1..Len(searched[p].workflows) :
              searched[p].workflows[i].name # doc[p][1].name

(***************************************************************************)
(* hasWorkflowChanges on its own: the two workflows are drawn from a       *)
(* bounded set with missing node lists and connection maps, reordered node *)
(* lists, connection maps in both key orders and values JSON.stringify     *)
(* rejects; the one action is the call.                                    *)
(***************************************************************************)
MaxNodes == 2

CmpNodes == {Node1, Node1b, Node2, NodeX}

EntryA == <<"n1", "n2">>
EntryB == <<"n2", "n1">>
EntryX == <<"n1", Cyclic>>

CmpNodeLists == UNION {[1..n -> CmpNodes] : n \in 0..MaxNodes}

CmpConnections == {<< >>, <<EntryA>>, <<EntryB>>, <<EntryA, EntryB>>, <<EntryB, EntryA>>,
                   <<EntryX>>}

CmpWorkflows ==
    [nodes : {None} \cup {Some(l) : l \in CmpNodeLists},
     connections : {None} \cup {Some(c) : c \in CmpConnections}]

CmpInit ==
    /\ cmpExisting \in {Some(w) : w \in CmpWorkflows}
    /\ cmpIncoming \in {Some(w) : w \in CmpWorkflows}
    /\ cmpResult = None
    /\ OnlyCmp

\* hasWorkflowChanges(existing, incoming), and the branch syncWorkflow takes
\* when `existing` is the workflow findWorkflowByName returned.
Compare ==
    /\ cmpResult = None
    /\ cmpResult' = Some([changed |-> hasWorkflowChanges(cmpExisting[1], cmpIncoming[1]),
                          branch |-> SyncBranch(cmpExisting, cmpIncoming[1])])
    /\ UNCHANGED <<cmpExisting, cmpIncoming>>
    /\ UNCHANGED otherThanCmp

CmpNext == Compare

SpecCmp == CmpInit /\ [][CmpNext]_vars

\* The reference: same node count, projections equal position by position,
\* connection maps identical (same entries in the same order).
ReferenceUnchanged(E, D) ==
    LET en == OrElse(E.nodes, << >>)
        dn == OrElse(D.nodes, << >>)
    IN  /\ Len(en) = Len(dn)
        /\ \A i \in 1..Len(en) : ProjectNode(en[i]) = ProjectNode(dn[i])
        /\ OrElse(E.connections, << >>) = OrElse(D.connections, << >>)

\* b holds the elements of a in another order.
Reordered(a, b) ==
    /\ Len(a) = Len(b)
    /\ a # b
    /\ \E f \in Permutations(1..Len(a)) : \A i \in 1..Len(a) : b[i] = a[f[i]]

\* C11: for all E and D that serialise without error, hasWorkflowChanges(E, D)
\* is false exactly when the node lists have the same length, the per-node
\* projections are equal position by position and the connection maps are
\* identical, and true otherwise; a missing node list or connection map
\* counts as empty.
C11_MatchesReference ==
    (cmpResult # None /\ Serialisable(cmpExisting[1]) /\ Serialisable(cmpIncoming[1]))
        => (cmpResult[1].changed = ~ReferenceUnchanged(cmpExisting[1], cmpIncoming[1]))

\* A missing connection map against an empty one, two nodes that differ in
\* an unprojected field only: false.
C11_Witness ==
    /\ cmpResult # None
    /\ cmpExisting[1].nodes = Some(<<Node1, Node2>>)
    /\ cmpIncoming[1].nodes = Some(<<Node1b, Node2>>)
    /\ cmpExisting[1].connections = None
    /\ cmpIncoming[1].connections = Some(<< >>)
    /\ cmpResult[1].changed = FALSE

\* The projected nodes of D are those of E in another order.
NodesReordered(E, D) ==
    Reordered(MapProject(OrElse(E.nodes, << >>)), MapProject(OrElse(D.nodes, << >>)))

\* The connection map of D holds the entries of E under another key order.
ConnectionsReordered(E, D) ==
    Reordered(OrElse(E.connections, << >>), OrElse(D.connections, << >>))

\* C12: when D holds the nodes of E in a different order, or its connection
\* map holds the entries of E in a different key order, hasWorkflowChanges
\* returns true and syncWorkflow takes the 'updated' branch.
C12_OrderSensitive ==
    (/\ cmpResult # None
     /\ \/ NodesReordered(cmpExisting[1], cmpIncoming[1])
        \/ ConnectionsReordered(cmpExisting[1], cmpIncoming[1]))
        => (cmpResult[1].changed = TRUE /\ cmpResult[1].branch = "updated")

\* Two nodes swapped and the two connection entries swapped.
C12_Witness ==
    /\ cmpResult # None
    /\ cmpExisting[1].nodes = Some(<<Node1, Node2>>)
    /\ cmpIncoming[1].nodes = Some(<<Node2, Node1>>)
    /\ cmpExisting[1].connections = Some(<<EntryA, EntryB>>)
    /\ cmpIncoming[1].connections = Some(<<EntryB, EntryA>>)
    /\ cmpResult[1].branch = "updated"

\* A JSON.stringify call that hasWorkflowChanges reaches throws.
ComparisonRaises(E, D) ==
    LET en == OrElse(E.nodes, << >>)
        dn == OrElse(D.nodes, << >>)
        es == StringifyNodes(MapProject(en))
        ds == StringifyNodes(MapProject(dn))
    IN  /\ Len(en) = Len(dn)
        /\ \/ ~es.ok
           \/ ~ds.ok
           \/ /\ es = ds
              /\ \/ ~StringifyConnections(OrElse(E.connections, << >>)).ok
                 \/ ~StringifyConnections(OrElse(D.connections, << >>)).ok

\* C13: whenever the comparison raises an error, hasWorkflowChanges returns
\* true, so that the matched workflow is updated and not reported unchanged.
C13_FailsOpen ==
    (cmpResult # None /\ ComparisonRaises(cmpExisting[1], cmpIncoming[1]))
        => (cmpResult[1].changed = TRUE /\ cmpResult[1].branch = "updated")

\* Equal nodes, an unserialisable connection value on the incoming side.
C13_Witness ==
    /\ cmpResult # None
    /\ cmpExisting[1].nodes = Some(<<Node1>>)
    /\ cmpIncoming[1].nodes = Some(<<Node1>>)
    /\ cmpExisting[1].connections = Some(<<EntryA>>)
    /\ cmpIncoming[1].connections = Some(<<EntryX>>)
    /\ cmpResult[1].changed = TRUE

(***************************************************************************)
(* handleVSCodeWorkflowSync, the window's 'message' listener.  syncWorkflow,*)
(* the router and the store calls of the refresh are awaited; each settles *)
(* with a result or a rejection.  The listener does not queue, so two      *)
(* invocations can be suspended together.                                  *)
(***************************************************************************)
\* messageEvent.data: a string, null, or an object with a type and possibly
\* a workflow.
MsgData ==
    {[shape |-> "string", type |-> Undef, workflow |-> None],
     [shape |-> "null", type |-> Undef, workflow |-> None],
     [shape |-> "object", type |-> "other", workflow |-> Some([name |-> NameA])],
     [shape |-> "object", type |-> "workflowSync", workflow |-> None],
     [shape |-> "object", type |-> "workflowSync", workflow |-> Some([name |-> << >>])],
     [shape |-> "object", type |-> "workflowSync", workflow |-> Some([name |-> NameA])]}

\* The guard of the handler.
IsWorkflowSync(m) == m.shape = "object" /\ m.type = "workflowSync"

\* The actions syncWorkflow can report and the ids the store can give.
SyncActions == {"created", "updated", "unchanged"}
WorkflowIds == {"w1", "w2"}

\* The JSON text posted to window.parent after a successful sync.
CompleteReply(res) ==
    [target |-> "parent", command |-> "workflowSyncComplete",
     workflowId |-> res.workflow.id, workflowName |-> res.workflow.name,
     action |-> res.action, message |-> Undef, error |-> Undef]

\* The JSON text posted to window.top by the catch block.
ErrorReply(errorMessage) ==
    [target |-> "top", command |-> "error", workflowId |-> Undef, workflowName |-> None,
     action |-> Undef, message |-> "Failed to sync workflow", error |-> errorMessage]

\* The catch block: the error reply and the error toast.
Fail(h, errorMessage) ==
    /\ hReplies' = [hReplies EXCEPT ![h] = Append(@, ErrorReply(errorMessage))]
    /\ hToasts' = [hToasts EXCEPT ![h] = Append(@, "Workflow Sync Error")]
    /\ hPc' = [hPc EXCEPT ![h] = "done"]

\* The end of the try block: the completion reply and the toast of the action.
Complete(h) ==
    LET res == hResult[h][1]
    IN  /\ hReplies' = [hReplies EXCEPT ![h] = Append(@, CompleteReply(res))]
        /\ hToasts' = [hToasts EXCEPT ![h] =
                          IF res.action = "created" THEN Append(@, "Workflow Created")
                          ELSE IF res.action = "updated" THEN Append(@, "Workflow Updated")
                          ELSE @]
        /\ hPc' = [hPc EXCEPT ![h] = "done"]

MsgInit ==
    /\ hPc = [h \in Handlers |-> "idle"]
    /\ hMsg = [h \in Handlers |-> None]
    /\ hCalled = [h \in Handlers |-> FALSE]
    /\ hResult = [h \in Handlers |-> None]
    /\ hNav = [h \in Handlers |-> "none"]
    /\ hRefresh = [h \in Handlers |-> "none"]
    /\ hReplies = [h \in Handlers |-> << >>]
    /\ hToasts = [h \in Handlers |-> << >>]
    /\ hasRouter \in BOOLEAN
    /\ OnlyMsg

\* A message arrives: the handler runs up to its first await, or to its end.
Receive(h, m) ==
    /\ hPc[h] = "idle"
    /\ \A g \in Handlers : g < h => hPc[g] # "idle"
    /\ hMsg' = [hMsg EXCEPT ![h] = Some(m)]
    /\ IF ~IsWorkflowSync(m)
       THEN /\ hPc' = [hPc EXCEPT ![h] = "ignored"]
            /\ UNCHANGED <<hCalled, hReplies, hToasts>>
       ELSE IF m.workflow = None \/ m.workflow[1].name = << >>
       THEN /\ Fail(h, "Invalid workflow data: missing name")
            /\ UNCHANGED hCalled
       ELSE /\ hPc' = [hPc EXCEPT ![h] = "sync"]
            /\ hCalled' = [hCalled EXCEPT ![h] = TRUE]
            /\ UNCHANGED <<hReplies, hToasts>>
    /\ UNCHANGED <<hResult, hNav, hRefresh, hasRouter>>
    /\ UNCHANGED otherThanMsg

\* syncWorkflow resolves; navigateToWorkflow pushes the route, or sets the
\* location hash when the router is not exposed.
SyncResolves(h, action, id) ==
    /\ hPc[h] = "sync"
    /\ hResult' = [hResult EXCEPT ![h] =
                      Some([action |-> action,
                            workflow |-> [id |-> id, name |-> hMsg[h][1].workflow[1].name]])]
    /\ IF hasRouter
       THEN /\ hPc' = [hPc EXCEPT ![h] = "navigate"]
            /\ UNCHANGED hNav
       ELSE /\ hPc' = [hPc EXCEPT ![h] = "fetch"]
            /\ hNav' = [hNav EXCEPT ![h] = "hash"]
    /\ UNCHANGED <<hMsg, hCalled, hRefresh, hReplies, hToasts, hasRouter>>
    /\ UNCHANGED otherThanMsg

\* syncWorkflow rejects.
SyncRejects(h) ==
    /\ hPc[h] = "sync"
    /\ Fail(h, "sync failed")
    /\ UNCHANGED <<hMsg, hCalled, hResult, hNav, hRefresh, hasRouter>>
    /\ UNCHANGED otherThanMsg

\* router.push resolves; the handler calls workflowsStore.fetchWorkflow.
NavResolves(h) ==
    /\ hPc[h] = "navigate"
    /\ hNav' = [hNav EXCEPT ![h] = "router"]
    /\ hPc' = [hPc EXCEPT ![h] = "fetch"]
    /\ UNCHANGED <<hMsg, hCalled, hResult, hRefresh, hReplies, hToasts, hasRouter>>
    /\ UNCHANGED otherThanMsg

\* router.push rejects.
NavRejects(h) ==
    /\ hPc[h] = "navigate"
    /\ hNav' = [hNav EXCEPT ![h] = "failed"]
    /\ Fail(h, "navigation failed")
    /\ UNCHANGED <<hMsg, hCalled, hResult, hRefresh, hasRouter>>
    /\ UNCHANGED otherThanMsg

\* fetchWorkflow resolves: initializeWorkspace is called when the workflow
\* has a checksum and is the one on screen.
FetchResolves(h, checksum, viewing) ==
    /\ hPc[h] = "fetch"
    /\ IF checksum /\ viewing
       THEN /\ hPc' = [hPc EXCEPT ![h] = "init"]
            /\ UNCHANGED <<hRefresh, hReplies, hToasts>>
       ELSE /\ hRefresh' = [hRefresh EXCEPT ![h] = "skipped"]
            /\ Complete(h)
    /\ UNCHANGED <<hMsg, hCalled, hResult, hNav, hasRouter>>
    /\ UNCHANGED otherThanMsg

\* FetchRejects without the inner try/catch: the rejection reaches the
\* catch block of the handler.
FetchRejectsPropagates(h) ==
    /\ hPc[h] = "fetch"
    /\ hRefresh' = [hRefresh EXCEPT ![h] = "failed"]
    /\ Fail(h, "fetch failed")
    /\ UNCHANGED <<hMsg, hCalled, hResult, hNav, hasRouter>>
    /\ UNCHANGED otherThanMsg

\* fetchWorkflow rejects: the inner catch block logs a warning.
FetchRejects(h) ==
    /\ hPc[h] = "fetch"
    /\ hRefresh' = [hRefresh EXCEPT ![h] = "failed"]
    /\ Complete(h)
    /\ UNCHANGED <<hMsg, hCalled, hResult, hNav, hasRouter>>
    /\ UNCHANGED otherThanMsg

\* initializeWorkspace resolves.
InitResolves(h) ==
    /\ hPc[h] = "init"
    /\ hRefresh' = [hRefresh EXCEPT ![h] = "ok"]
    /\ Complete(h)
    /\ UNCHANGED <<hMsg, hCalled, hResult, hNav, hasRouter>>
    /\ UNCHANGED otherThanMsg

\* initializeWorkspace rejects: the inner catch block logs a warning.
InitRejects(h) ==
    /\ hPc[h] = "init"
    /\ hRefresh' = [hRefresh EXCEPT ![h] = "failed"]
    /\ Complete(h)
    /\ UNCHANGED <<hMsg, hCalled, hResult, hNav, hasRouter>>
    /\ UNCHANGED otherThanMsg

MsgNext ==
    \/ \E h \in Handlers, m \in MsgData : Receive(h, m)
    \/ \E h \in Handlers, action \in SyncActions, id \in WorkflowIds :
          SyncResolves(h, action, id)
    \/ \E h \in Handlers : SyncRejects(h)
    \/ \E h \in Handlers : NavResolves(h)
    \/ \E h \in Handlers : NavRejects(h)
    \/ \E h \in Handlers, checksum \in BOOLEAN, viewing \in BOOLEAN :
          FetchResolves(h, checksum, viewing)
    \/ \E h \in Handlers : FetchRejects(h)
    \/ \E h \in Handlers : InitResolves(h)
    \/ \E h \in Handlers : InitRejects(h)

SpecMsg == MsgInit /\ [][MsgNext]_vars

\* syncWorkflow and navigateToWorkflow both succeeded for invocation h.
SyncedAndNavigated(h) == hResult[h] # None /\ hNav[h] \in {"router", "hash"}

\* C14: for every message whose data is an object with type 'workflowSync',
\* the handler never posts more than one reply, and once its awaited calls
\* have settled it has posted exactly one: 'workflowSyncComplete' with the
\* id, name and action of the sync result when syncWorkflow and
\* navigateToWorkflow both succeeded, whatever became of the refresh, and
\* 'error' otherwise; a message without a workflow or without a workflow
\* name gets the error reply and no store call.
C14_ExactlyOneReply ==
    \A h \in Handlers :
        (hMsg[h] # None /\ IsWorkflowSync(hMsg[h][1])) =>
            /\ Len(hReplies[h]) <= 1
            /\ hPc[h] \in {"idle", "sync", "navigate", "fetch", "init", "done"}
            /\ hPc[h] = "done" =>
                  /\ Len(hReplies[h]) = 1
                  /\ IF SyncedAndNavigated(h)
                     THEN /\ hReplies[h][1].command = "workflowSyncComplete"
                          /\ hReplies[h][1].workflowId = hResult[h][1].workflow.id
                          /\ hReplies[h][1].workflowName = hResult[h][1].workflow.name
                          /\ hReplies[h][1].action = hResult[h][1].action
                     ELSE hReplies[h][1].command = "error"
            /\ (hMsg[h][1].workflow = None \/ hMsg[h][1].workflow[1].name = << >>) =>
                  /\ ~hCalled[h]
                  /\ hPc[h] = "done"

\* The refresh failed after a successful sync and navigation, and the one
\* reply is the completion; the other invocation answered a message without
\* a workflow name.
C14_Witness ==
    \E h, g \in Handlers :
        /\ hPc[h] = "done"
        /\ hRefresh[h] = "failed"
        /\ Len(hReplies[h]) = 1
        /\ hReplies[h][1].command = "workflowSyncComplete"
        /\ hPc[g] = "done"
        /\ hMsg[g][1].workflow = Some([name |-> << >>])
        /\ hReplies[g][1].command = "error"

(***************************************************************************)
(* serializeWorkflowData(workflowData) of useWorkflowFileSync.  A field of *)
(* the workflow is absent, plain data, data that holds a function          *)
(* (JSON.stringify leaves the function out), or a value JSON.stringify     *)
(* rejects, such as a cyclic one.                                          *)
(***************************************************************************)
Plain == "plain"
HasFunction == "hasFunction"
Stripped == "stripped"
Empty == "empty"

FieldValues == {Undef, Plain, HasFunction, Cyclic}

SerInputs ==
    [name : {"A", "", Undef}, nodes : FieldValues, connections : FieldValues,
     settings : FieldValues, pinData : FieldValues]

\* A value that `if (v)` and `v || d` take for missing.
Falsy(v) == v \in {Undef, ""}

\* What JSON.parse(JSON.stringify(v)) gives for a value JSON.stringify accepts.
JsonValue(v) == IF v = HasFunction THEN Stripped ELSE v

Returned(v) == [ok |-> TRUE, value |-> v]
Raised == [ok |-> FALSE, value |-> << >>]

\* JSON.parse(JSON.stringify(obj)): throws when a property cannot be
\* serialised; properties that are undefined are left out.
JsonRoundTrip(obj) ==
    IF \E k \in DOMAIN obj : obj[k] = Cyclic THEN Raised
    ELSE Returned([k \in DOMAIN obj |-> JsonValue(obj[k])])

\* The object of the last catch block.
Skeleton(workflowData) ==
    [name |-> IF Falsy(workflowData.name) THEN "" ELSE workflowData.name,
     nodes |-> Empty, connections |-> Empty, settings |-> Undef, pinData |-> Undef]

\* serializeWorkflowData without its last catch block: a failure of the
\* fallback propagates.
serializeWorkflowDataNoLastResort(workflowData) ==
    LET pinDataOk == ~Falsy(workflowData.pinData) /\ workflowData.pinData # Cyclic
        dataToSerialize == [workflowData EXCEPT
                               !.pinData = IF pinDataOk THEN workflowData.pinData ELSE Undef]
        serialized == JsonRoundTrip(dataToSerialize)
        fallback == JsonRoundTrip(
            [name |-> workflowData.name,
             nodes |-> IF Falsy(workflowData.nodes) THEN Empty ELSE workflowData.nodes,
             connections |-> IF Falsy(workflowData.connections) THEN Empty
                             ELSE workflowData.connections,
             settings |-> workflowData.settings,
             pinData |-> Undef])
    IN  IF serialized.ok THEN serialized ELSE fallback

\* serializeWorkflowData leaving the settings out of dataToSerialize.
serializeWorkflowDataNoSettings(workflowData) ==
    LET pinDataOk == ~Falsy(workflowData.pinData) /\ workflowData.pinData # Cyclic
        dataToSerialize == [workflowData EXCEPT
                               !.settings = Undef,
                               !.pinData = IF pinDataOk THEN workflowData.pinData ELSE Undef]
        serialized == JsonRoundTrip(dataToSerialize)
    IN  IF serialized.ok THEN serialized ELSE Returned(Skeleton(workflowData))

serializeWorkflowData(workflowData) ==
    LET pinDataOk == ~Falsy(workflowData.pinData) /\ workflowData.pinData # Cyclic
        dataToSerialize == [workflowData EXCEPT
                               !.pinData = IF pinDataOk THEN workflowData.pinData ELSE Undef]
        serialized == JsonRoundTrip(dataToSerialize)
        fallback == JsonRoundTrip(
            [name |-> workflowData.name,
             nodes |-> IF Falsy(workflowData.nodes) THEN Empty ELSE workflowData.nodes,
             connections |-> IF Falsy(workflowData.connections) THEN Empty
                             ELSE workflowData.connections,
             settings |-> workflowData.settings,
             pinData |-> Undef])
    IN  IF serialized.ok THEN serialized
        ELSE IF fallback.ok THEN fallback
        ELSE Returned(Skeleton(workflowData))

SerInit ==
    /\ serInput \in {Some(x) : x \in SerInputs}
    /\ serResult = None
    /\ OnlySer

\* The call.
Serialize ==
    /\ serResult = None
    /\ serResult' = Some(serializeWorkflowData(serInput[1]))
    /\ UNCHANGED serInput
    /\ UNCHANGED otherThanSer

SerNext == Serialize

SpecSer == SerInit /\ [][SerNext]_vars

WorkflowFields == {"nodes", "connections", "settings"}

\* structuredClone and JSON.stringify both accept v.
PostMessageSafe(v) == v \notin {Cyclic, HasFunction}

\* The tiers of the result.
FullCopy(x) == [k \in DOMAIN x |-> JsonValue(x[k])]
CopyWithoutPinData(x) == [FullCopy(x) EXCEPT !.pinData = Undef]

\* C15: serializeWorkflowData never throws; for every input, unserialisable
\* nodes, connections, settings or pinData included, it returns a value all
\* of whose fields are serialisable: the full copy when everything
\* serialises, the copy without pinData when pinData alone does not, and the
\* skeleton {name, nodes: [], connections: {}} otherwise.
C15_NeverThrows ==
    serResult # None =>
        LET x == serInput[1]
            r == serResult[1]
        IN  /\ r.ok
            /\ \A k \in DOMAIN r.value : PostMessageSafe(r.value[k])
            /\ IF \E k \in WorkflowFields : x[k] = Cyclic
               THEN r.value = Skeleton(x)
               ELSE IF x.pinData = Cyclic THEN r.value = CopyWithoutPinData(x)
               ELSE r.value = FullCopy(x)

\* Cyclic nodes and cyclic pinData: the skeleton is returned.
C15_Witness ==
    /\ serResult # None
    /\ serInput[1].nodes = Cyclic
    /\ serInput[1].pinData = Cyclic
    /\ serInput[1].name = "A"
    /\ serResult[1].ok
    /\ serResult[1].value.nodes = Empty

\* No field of x holds a function or a cycle.
PlainDocument(x) == \A k \in WorkflowFields : x[k] \in {Undef, Plain}

WebviewOrigin == <<"vscode-webview:", "//panel">>
BrowserOrigin == <<"http:", "//localhost:5678">>

Windows ==
    [hasWindow : BOOLEAN,
     origin : {None, Some(WebviewOrigin), Some(BrowserOrigin)},
     vscode : {"absent", "noPostMessage", "api"},
     postThrows : BOOLEAN]

\* typeof window !== 'undefined' && window.location?.origin?.startsWith('vscode-webview:')
isVSCodeWebview(env) ==
    /\ env.hasWindow
    /\ env.origin # None
    /\ Head(env.origin[1]) = "vscode-webview:"

\* startedAt and stoppedAt: a Date, a Date toISOString rejects, an ISO
\* string, or (against the declared type) data that holds a function, with
\* or without a cycle.
IsoString == "isoString"
ValidDate == "date"
InvalidDate == "invalidDate"
CyclicWithFunction == "cyclicWithFunction"

TimingValues == {Undef, IsoString, ValidDate, InvalidDate, HasFunction, CyclicWithFunction}

PostArgs ==
    [workflowData : [name : {"A"}, nodes : {Plain, Cyclic}, connections : {Plain},
                     settings : {Undef, Plain}, pinData : {Undef, Plain, Cyclic}],
     shouldSave : BOOLEAN,
     executionData : FieldValues,
     executionTiming : {None} \cup {Some(t) : t \in [startedAt : TimingValues,
                                                     stoppedAt : {Undef, ValidDate}]}]

\* What a call did: the messages it passed to vscode.postMessage, those the
\* host got, and whether an exception left the function.
Outcome(attempted, received, raised) ==
    [calls |-> attempted, delivered |-> received, threw |-> raised]

\* t instanceof Date ? t.toISOString() : t
ConvertTime(t) == IF t = ValidDate THEN IsoString ELSE t

\* The execution timing of the message; toISOString throws on an invalid
\* Date, and the catch block leaves the timing out.
SerializeTiming(executionTiming) ==
    IF executionTiming = None THEN None
    ELSE IF InvalidDate \in {executionTiming[1].startedAt, executionTiming[1].stoppedAt}
    THEN None
    ELSE Some([startedAt |-> ConvertTime(executionTiming[1].startedAt),
               stoppedAt |-> ConvertTime(executionTiming[1].stoppedAt)])

\* The execution data of the message: left out when missing or when the
\* JSON round trip throws.
SerializeExecutionData(executionData) ==
    IF Falsy(executionData) \/ executionData = Cyclic THEN Undef
    ELSE JsonValue(executionData)

\* The message object.
BuildMessage(workflowData, shouldSave, executionData, executionTiming) ==
    [type |-> "workflowUpdate",
     workflow |-> serializeWorkflowData(workflowData).value,
     shouldSave |-> shouldSave,
     executionData |-> SerializeExecutionData(executionData),
     executionTiming |-> SerializeTiming(executionTiming)]

\* The values of the message that are not records themselves.
Leaves(message) ==
    {message.workflow[k] : k \in DOMAIN message.workflow}
        \cup {message.executionData}
        \cup (IF message.executionTiming = None THEN {}
              ELSE {message.executionTiming[1].startedAt,
                    message.executionTiming[1].stoppedAt})

\* structuredClone(message) does not throw: it copies cycles and rejects
\* functions.
Cloneable(message) == Leaves(message) \cap {HasFunction, CyclicWithFunction} = {}

\* JSON.stringify(message) does not throw.
Stringifiable(message) == Leaves(message) \cap {Cyclic, CyclicWithFunction} = {}

\* JSON.parse(JSON.stringify(message)) for a message JSON.stringify accepts.
ReSerialize(message) ==
    [message EXCEPT
        !.executionTiming = IF @ = None THEN None
                            ELSE Some([startedAt |-> JsonValue(@[1].startedAt),
                                       stoppedAt |-> JsonValue(@[1].stoppedAt)])]

\* vscode.postMessage(message).
PostOnce(env, message) ==
    Outcome(<<message>>, IF env.postThrows THEN << >> ELSE <<message>>, env.postThrows)

\* try { ... } catch (error) { console.error(...) }
Swallow(outcome) == [outcome EXCEPT !.threw = FALSE]

\* SendMessage posting a second time when the first post throws.
SendMessageRetries(env, message) ==
    IF ~Cloneable(message)
    THEN IF Stringifiable(message) THEN PostOnce(env, ReSerialize(message))
         ELSE Outcome(<< >>, << >>, TRUE)
    ELSE IF env.postThrows
    THEN Outcome(<<message, ReSerialize(message)>>, << >>, TRUE)
    ELSE PostOnce(env, message)

\* The clone test and the post: the message as built, or its JSON round
\* trip when structuredClone rejects it; JSON.stringify and postMessage can
\* throw.
SendMessage(env, message) ==
    IF ~Cloneable(message)
    THEN IF Stringifiable(message) THEN PostOnce(env, ReSerialize(message))
         ELSE Outcome(<< >>, << >>, TRUE)
    ELSE PostOnce(env, message)

\* syncWorkflowToFile without the isVSCodeWebview test.
syncWorkflowToFileNoHostCheck(env, workflowData, shouldSave, executionData, executionTiming) ==
    IF env.vscode # "api" THEN Outcome(<< >>, << >>, FALSE)
    ELSE Swallow(SendMessage(env, BuildMessage(workflowData, shouldSave, executionData,
                                               executionTiming)))

syncWorkflowToFile(env, workflowData, shouldSave, executionData, executionTiming) ==
    IF ~isVSCodeWebview(env) THEN Outcome(<< >>, << >>, FALSE)
    ELSE IF env.vscode # "api" THEN Outcome(<< >>, << >>, FALSE)
    ELSE Swallow(SendMessage(env, BuildMessage(workflowData, shouldSave, executionData,
                                               executionTiming)))

PostInit ==
    /\ pEnv \in {Some(e) : e \in Windows}
    /\ pArgs \in {Some(a) : a \in PostArgs}
    /\ pOutcome = None
    /\ OnlyPost

\* The call.
CallSyncWorkflowToFile ==
    /\ pOutcome = None
    /\ pOutcome' = Some(syncWorkflowToFile(pEnv[1], pArgs[1].workflowData,
                                           pArgs[1].shouldSave, pArgs[1].executionData,
                                           pArgs[1].executionTiming))
    /\ UNCHANGED <<pEnv, pArgs>>
    /\ UNCHANGED otherThanPost

PostNext == CallSyncWorkflowToFile

SpecPost == PostInit /\ [][PostNext]_vars

\* C19: outside the host, that is when the window is not a VS Code webview or
\* window.vscode with a postMessage function is absent, syncWorkflowToFile
\* posts nothing and raises nothing, whatever its arguments.
C19_NoOpOutsideHost ==
    (pOutcome # None /\ (~isVSCodeWebview(pEnv[1]) \/ pEnv[1].vscode # "api")) =>
        /\ pOutcome[1].calls = << >>
        /\ pOutcome[1].delivered = << >>
        /\ ~pOutcome[1].threw

\* An ordinary browser window in which window.vscode is set.
C19_Witness ==
    /\ pOutcome # None
    /\ pEnv[1].hasWindow
    /\ pEnv[1].origin = Some(BrowserOrigin)
    /\ pEnv[1].vscode = "api"
    /\ pArgs[1].shouldSave
    /\ pOutcome[1].calls = << >>

\* C20: a call of syncWorkflowToFile invokes postMessage at most once, on
\* the normal path or on the re-serialised path, never lets an exception
\* out, and does not post again after a post that failed: the update is
\* then lost.
C20_NoRetryNoPropagation ==
    pOutcome # None =>
        /\ Len(pOutcome[1].calls) <= 1
        /\ ~pOutcome[1].threw
        /\ pEnv[1].postThrows => pOutcome[1].delivered = << >>

\* In the host, a message structuredClone accepts, and postMessage throws.
C20_Witness ==
    /\ pOutcome # None
    /\ isVSCodeWebview(pEnv[1])
    /\ pEnv[1].vscode = "api"
    /\ pEnv[1].postThrows
    /\ pArgs[1].executionTiming = None
    /\ Len(pOutcome[1].calls) = 1
    /\ pOutcome[1].delivered = << >>

(***************************************************************************)
(* setupAutoSync: the watcher on the workflow and on stateIsDirty, and the *)
(* debounced sync it schedules.  The window is the host's webview with the *)
(* VS Code API, and postMessage delivers.                                  *)
(***************************************************************************)
Edited == "edited"

AutoWorkflows ==
    [name : {"A", ""}, nodes : {Plain, Edited}, connections : {Plain},
     settings : {Undef, Plain}, pinData : {Undef, Plain}]

HostWindow ==
    [hasWindow |-> TRUE, origin |-> Some(WebviewOrigin), vscode |-> "api",
     postThrows |-> FALSE]

\* The keys of the object the watcher serialises, in the order of the literal.
WatchedKeys == <<"nodes", "connections", "name", "settings">>

\* currentDataString
CurrentDataString(w) == StringifyObject(w, WatchedKeys).text

AutoInit ==
    /\ aWorkflow \in {Some(w) : w \in AutoWorkflows}
    /\ aDirty = FALSE
    /\ lastSyncedData = None
    /\ aTimer = FALSE
    /\ aLastPost = None
    /\ aPrevPost = None
    /\ aEdited = FALSE
    /\ aPostedSince = FALSE
    /\ OnlyAuto

\* The callback of the watcher for the workflow w and the flag isDirty; a
\* call of debouncedSyncWorkflow arms the timer or restarts it.
Watcher(w, isDirty) ==
    IF ~isDirty \/ Falsy(w.name)
    THEN UNCHANGED <<lastSyncedData, aTimer>>
    ELSE IF Some(CurrentDataString(w)) # lastSyncedData
    THEN /\ lastSyncedData' = Some(CurrentDataString(w))
         /\ aTimer' = TRUE
    ELSE UNCHANGED <<lastSyncedData, aTimer>>

\* The user edits the workflow: the store holds w and the state is dirty.
LocalEdit(w) ==
    /\ Some(w) # aWorkflow
    /\ aWorkflow' = Some(w)
    /\ aDirty' = TRUE
    /\ Watcher(w, TRUE)
    /\ aEdited' = (~Falsy(w.name) /\ CurrentDataString(w) # CurrentDataString(aWorkflow[1]))
    /\ aPostedSince' = FALSE
    /\ UNCHANGED <<aLastPost, aPrevPost>>
    /\ UNCHANGED otherThanAuto

\* A workflow is loaded into the editor from outside (the host's file, the
\* server): the store holds w and the state is clean.
ExternalLoad(w) ==
    /\ Some(w) # aWorkflow
    /\ aWorkflow' = Some(w)
    /\ aDirty' = FALSE
    /\ Watcher(w, FALSE)
    /\ aEdited' = FALSE
    /\ aPostedSince' = FALSE
    /\ UNCHANGED <<aLastPost, aPrevPost>>
    /\ UNCHANGED otherThanAuto

\* The workflow is saved: the state is clean again.
Saved ==
    /\ aDirty
    /\ aDirty' = FALSE
    /\ Watcher(aWorkflow[1], FALSE)
    /\ UNCHANGED <<aWorkflow, aLastPost, aPrevPost, aEdited, aPostedSince>>
    /\ UNCHANGED otherThanAuto

\* The state becomes dirty without a change of the workflow.
MarkedDirty ==
    /\ ~aDirty
    /\ aDirty' = TRUE
    /\ Watcher(aWorkflow[1], TRUE)
    /\ UNCHANGED <<aWorkflow, aLastPost, aPrevPost, aEdited, aPostedSince>>
    /\ UNCHANGED otherThanAuto

\* The debounce delay has passed: the debounced function posts the workflow
\* the store holds now.
TimerFires ==
    /\ aTimer
    /\ aTimer' = FALSE
    /\ LET workflow == aWorkflow[1]
           outcome == syncWorkflowToFile(HostWindow, workflow, FALSE, Undef, None)
       IN  IF Falsy(workflow.name) \/ outcome.delivered = << >>
           THEN UNCHANGED <<aLastPost, aPrevPost, aPostedSince>>
           ELSE /\ aLastPost' = Some(outcome.delivered[1])
                /\ aPrevPost' = aLastPost
                /\ aPostedSince' = TRUE
    /\ UNCHANGED <<aWorkflow, aDirty, lastSyncedData, aEdited>>
    /\ UNCHANGED otherThanAuto

AutoNext ==
    \/ \E w \in AutoWorkflows : LocalEdit(w)
    \/ \E w \in AutoWorkflows : ExternalLoad(w)
    \/ Saved
    \/ MarkedDirty
    \/ TimerFires

SpecAuto == AutoInit /\ [][AutoNext]_vars

\* The payload of a posted message: its name, nodes, connections, settings.
PostedPayload(message) == CurrentDataString(message.workflow)

\* C17: every message automatic sync posts has shouldSave = false, and two
\* consecutive automatic posts never carry the same payload (name, nodes,
\* connections, settings).
C17_PostsOnlyRealChanges ==
    /\ aLastPost # None => aLastPost[1].shouldSave = FALSE
    /\ (aLastPost # None /\ aPrevPost # None) =>
          PostedPayload(aLastPost[1]) # PostedPayload(aPrevPost[1])

\* C18: after a local edit that changed name, nodes, connections or settings,
\* with nothing changing the workflow since, either the debounce timer is
\* still armed or a message carrying the workflow in memory has been posted
\* since the edit.
C18_EditsReachHost ==
    aEdited =>
        \/ aTimer
        \/ /\ aPostedSince
           /\ aLastPost[1].workflow = serializeWorkflowData(aWorkflow[1]).value

(***************************************************************************)
(* LocalAdminService.ensureLocalAdminExists, run at each startup.  The     *)
(* repositories are the database: a user table with unique emails, a       *)
(* project table and a project relation table.  Every repository call and  *)
(* every password hash is awaited and either succeeds or throws.           *)
(***************************************************************************)
MaxRuns == 2

AdminEmail == "admin@local"
OwnerRole == "global:owner"
MemberRole == "global:member"
NoRole == "null"
NoPassword == "null"
NoName == "null"
PersonalOwner == "project:personalOwner"

\* passwordUtility.hash(plain)
Hash(plain) == <<"hash", plain>>

\* The users the database can hold before the first startup.
FirstUsers ==
    [email : {AdminEmail, "olga@x"}, role : {OwnerRole, MemberRole, NoRole},
     password : {<<NoPassword>>, Hash("secret")},
     firstName : {NoName, "", "Olga"}, lastName : {"", "Own"}]

SecondUsers ==
    [email : {"pat@x"}, role : {OwnerRole, MemberRole}, password : {Hash("secret")},
     firstName : {"Pat"}, lastName : {""}]

InitialUserTables ==
    {<< >>} \cup {<<u>> : u \in FirstUsers \cup SecondUsers}
        \cup {<<u, v>> : u \in FirstUsers, v \in SecondUsers}

\* The personal project of user id and the relation that makes the user its
\* owner.
PersonalProject(projectId, user, id) ==
    [id |-> projectId, type |-> "personal",
     name |-> <<IF user.firstName = NoName THEN user.email ELSE user.firstName,
                "'s Projects">>,
     creatorId |-> id]

OwnerRelation(projectId, id) ==
    [projectId |-> projectId, userId |-> id, role |-> PersonalOwner]

\* projectRepository.getPersonalProjectForUser(id) finds a project.
HasPersonalProject(projects, relations, id) ==
    \E p \in projects :
        /\ p.type = "personal"
        /\ OwnerRelation(p.id, id) \in relations

\* userRepository.findOne({ where: { email } })
UsersWithEmail(users, email) == {i \in 1..Len(users) : users[i].email = email}

\* userRepository.findOne({ where: { role: { slug } } })
UsersWithRole(users, role) == {i \in 1..Len(users) : users[i].role = role}

\* An id no project has.
NewProjectId == Len(laUsers) + Cardinality(laProjects) + 1

AdminInit ==
    /\ isLocal \in BOOLEAN
    /\ laUsers \in InitialUserTables
    /\ \E withProject \in SUBSET (1..Len(laUsers)) :
          /\ laProjects = {PersonalProject(i, laUsers[i], i) : i \in withProject}
          /\ laRelations = {OwnerRelation(i, i) : i \in withProject}
    /\ laPc = "idle"
    /\ laDraft = None
    /\ laWrites = << >>
    /\ laRuns = 0
    /\ laErrored = FALSE
    /\ laPrevOk = FALSE
    /\ laStart = None
    /\ laThrew = FALSE
    /\ OnlyAdmin

\* Startup with the isLocal test removed.
StartupIgnoresFlag ==
    /\ laPc \in {"idle", "returned"}
    /\ laRuns < MaxRuns
    /\ laRuns' = laRuns + 1
    /\ laStart' = Some([users |-> laUsers, projects |-> laProjects,
                        relations |-> laRelations])
    /\ laPrevOk' = (laPc = "returned" /\ ~laErrored)
    /\ laWrites' = << >>
    /\ laErrored' = FALSE
    /\ laDraft' = None
    /\ laPc' = "findAdmin"
    /\ UNCHANGED <<isLocal, laUsers, laProjects, laRelations, laThrew>>
    /\ UNCHANGED otherThanAdmin

\* ensureLocalAdminExists is called: it returns at once when the flag is off
\* and looks the admin email up otherwise.
Startup ==
    /\ laPc \in {"idle", "returned"}
    /\ laRuns < MaxRuns
    /\ laRuns' = laRuns + 1
    /\ laStart' = Some([users |-> laUsers, projects |-> laProjects,
                        relations |-> laRelations])
    /\ laPrevOk' = (laPc = "returned" /\ ~laErrored)
    /\ laWrites' = << >>
    /\ laErrored' = FALSE
    /\ laDraft' = None
    /\ laPc' = IF isLocal THEN "findAdmin" ELSE "returned"
    /\ UNCHANGED <<isLocal, laUsers, laProjects, laRelations, laThrew>>
    /\ UNCHANGED otherThanAdmin

\* The try block without its catch: the error leaves the function.
CaughtPropagates ==
    /\ laErrored' = TRUE
    /\ laThrew' = TRUE
    /\ laPc' = "crashed"

\* catch (error) { this.logger.error(...) }
Caught ==
    /\ laErrored' = TRUE
    /\ laPc' = "returned"
    /\ UNCHANGED laThrew

\* v || d
OrDefault(v, d) == IF v \in {NoName, ""} THEN d ELSE v

\* The existing owner with the admin email and the default names.
Repurposed(owner) ==
    [owner EXCEPT !.email = AdminEmail,
                  !.firstName = OrDefault(@, "Admin"),
                  !.lastName = OrDefault(@, "User")]

\* userRepository.create({ email, firstName, lastName, password, role })
NewAdmin ==
    [email |-> AdminEmail, role |-> OwnerRole, password |-> Hash("admin"),
     firstName |-> "Admin", lastName |-> "User"]

\* FindAdmin saving the user it found whatever its role.
FindAdminAlwaysSaves(ok) ==
    /\ laPc = "findAdmin"
    /\ IF ~ok
       THEN Caught /\ UNCHANGED laDraft
       ELSE IF UsersWithEmail(laUsers, AdminEmail) # {}
       THEN LET id == CHOOSE i \in UsersWithEmail(laUsers, AdminEmail) : TRUE
            IN  /\ laDraft' = Some([id |-> id, user |-> [laUsers[id] EXCEPT !.role = OwnerRole]])
                /\ laPc' = "saveRole"
                /\ UNCHANGED <<laErrored, laThrew>>
       ELSE /\ laPc' = "findOwner"
            /\ UNCHANGED <<laDraft, laErrored, laThrew>>
    /\ UNCHANGED <<isLocal, laUsers, laProjects, laRelations, laWrites, laRuns, laPrevOk,
                   laStart>>
    /\ UNCHANGED otherThanAdmin

\* findOne by email settles: a user with the admin email gets the owner role
\* if it has another, and then its personal project; without such a user
\* the owner is looked up.
FindAdmin(ok) ==
    /\ laPc = "findAdmin"
    /\ IF ~ok
       THEN Caught /\ UNCHANGED laDraft
       ELSE IF UsersWithEmail(laUsers, AdminEmail) # {}
       THEN LET id == CHOOSE i \in UsersWithEmail(laUsers, AdminEmail) : TRUE
            IN  /\ laDraft' = Some([id |-> id, user |-> [laUsers[id] EXCEPT !.role = OwnerRole]])
                /\ laPc' = IF laUsers[id].role # OwnerRole THEN "saveRole" ELSE "getProject"
                /\ UNCHANGED <<laErrored, laThrew>>
       ELSE /\ laPc' = "findOwner"
            /\ UNCHANGED <<laDraft, laErrored, laThrew>>
    /\ UNCHANGED <<isLocal, laUsers, laProjects, laRelations, laWrites, laRuns, laPrevOk,
                   laStart>>
    /\ UNCHANGED otherThanAdmin

\* userRepository.save of the entity in memory settles (the role update of
\* the admin, or the repurposed owner); ensurePersonalProjectExists follows.
SaveUser(ok) ==
    /\ laPc \in {"saveRole", "saveOwner"}
    /\ IF ok
       THEN /\ laUsers' = [laUsers EXCEPT ![laDraft[1].id] = laDraft[1].user]
            /\ laWrites' = Append(laWrites, "userRepository.save")
            /\ laPc' = "getProject"
            /\ UNCHANGED <<laErrored, laThrew>>
       ELSE Caught /\ UNCHANGED <<laUsers, laWrites>>
    /\ UNCHANGED <<isLocal, laProjects, laRelations, laDraft, laRuns, laPrevOk, laStart>>
    /\ UNCHANGED otherThanAdmin

\* GetProject taking the personal project to exist.
GetProjectAssumesExists(ok) ==
    /\ laPc = "getProject"
    /\ IF ok
       THEN /\ laPc' = "returned"
            /\ UNCHANGED <<laErrored, laThrew>>
       ELSE Caught
    /\ UNCHANGED <<isLocal, laUsers, laProjects, laRelations, laDraft, laWrites, laRuns,
                   laPrevOk, laStart>>
    /\ UNCHANGED otherThanAdmin

\* getPersonalProjectForUser settles: with a project the function returns,
\* without one the project is created.
GetProject(ok) ==
    /\ laPc = "getProject"
    /\ IF ok
       THEN /\ laPc' = IF HasPersonalProject(laProjects, laRelations, laDraft[1].id)
                       THEN "returned" ELSE "saveProject"
            /\ UNCHANGED <<laErrored, laThrew>>
       ELSE Caught
    /\ UNCHANGED <<isLocal, laUsers, laProjects, laRelations, laDraft, laWrites, laRuns,
                   laPrevOk, laStart>>
    /\ UNCHANGED otherThanAdmin

\* projectRepository.save settles; a failure is logged, re-thrown and caught
\* by ensureLocalAdminExists.
SaveProject(ok) ==
    /\ laPc = "saveProject"
    /\ IF ok
       THEN /\ laProjects' = laProjects \cup
                                {PersonalProject(NewProjectId, laDraft[1].user, laDraft[1].id)}
            /\ laWrites' = Append(laWrites, "projectRepository.save")
            /\ laPc' = "saveRelation"
            /\ UNCHANGED <<laErrored, laThrew>>
       ELSE Caught /\ UNCHANGED <<laProjects, laWrites>>
    /\ UNCHANGED <<isLocal, laUsers, laRelations, laDraft, laRuns, laPrevOk, laStart>>
    /\ UNCHANGED otherThanAdmin

\* projectRelationRepository.save settles.
SaveRelation(ok) ==
    /\ laPc = "saveRelation"
    /\ IF ok
       THEN /\ \E p \in laProjects :
                  /\ p.id = NewProjectId - 1
                  /\ laRelations' = laRelations \cup {OwnerRelation(p.id, laDraft[1].id)}
            /\ laWrites' = Append(laWrites, "projectRelationRepository.save")
            /\ laPc' = "returned"
            /\ UNCHANGED <<laErrored, laThrew>>
       ELSE Caught /\ UNCHANGED <<laRelations, laWrites>>
    /\ UNCHANGED <<isLocal, laUsers, laProjects, laDraft, laRuns, laPrevOk, laStart>>
    /\ UNCHANGED otherThanAdmin

\* FindOwner never finding an owner.
FindOwnerAlwaysCreates(ok) ==
    /\ laPc = "findOwner"
    /\ IF ~ok
       THEN Caught /\ UNCHANGED laDraft
       ELSE /\ laDraft' = Some([id |-> Len(laUsers) + 1, user |-> NewAdmin])
            /\ laPc' = "hashNew"
            /\ UNCHANGED <<laErrored, laThrew>>
    /\ UNCHANGED <<isLocal, laUsers, laProjects, laRelations, laWrites, laRuns, laPrevOk,
                   laStart>>
    /\ UNCHANGED otherThanAdmin

\* findOne by owner role settles: an owner the database returns is
\* repurposed in memory, hashing the default password when it has none;
\* without an owner a new admin is made.
FindOwner(ok) ==
    /\ laPc = "findOwner"
    /\ IF ~ok
       THEN Caught /\ UNCHANGED laDraft
       ELSE IF UsersWithRole(laUsers, OwnerRole) # {}
       THEN \E id \in UsersWithRole(laUsers, OwnerRole) :
                /\ laDraft' = Some([id |-> id, user |-> Repurposed(laUsers[id])])
                /\ laPc' = IF laUsers[id].password = <<NoPassword>>
                           THEN "hashOwner" ELSE "saveOwner"
                /\ UNCHANGED <<laErrored, laThrew>>
       ELSE /\ laDraft' = Some([id |-> Len(laUsers) + 1, user |-> NewAdmin])
            /\ laPc' = "hashNew"
            /\ UNCHANGED <<laErrored, laThrew>>
    /\ UNCHANGED <<isLocal, laUsers, laProjects, laRelations, laWrites, laRuns, laPrevOk,
                   laStart>>
    /\ UNCHANGED otherThanAdmin

\* passwordUtility.hash('admin') settles.
HashPassword(ok) ==
    /\ laPc \in {"hashOwner", "hashNew"}
    /\ IF ok
       THEN /\ laDraft' = Some([laDraft[1] EXCEPT !.user.password = Hash("admin")])
            /\ laPc' = IF laPc = "hashOwner" THEN "saveOwner" ELSE "createUser"
            /\ UNCHANGED <<laErrored, laThrew>>
       ELSE Caught /\ UNCHANGED laDraft
    /\ UNCHANGED <<isLocal, laUsers, laProjects, laRelations, laWrites, laRuns, laPrevOk,
                   laStart>>
    /\ UNCHANGED otherThanAdmin

\* userRepository.createUserWithProject settles: the user, its personal
\* project and the relation are saved in one transaction.
CreateUserWithProject(ok) ==
    /\ laPc = "createUser"
    /\ IF ok
       THEN /\ laUsers' = Append(laUsers, laDraft[1].user)
            /\ laProjects' = laProjects \cup
                                {PersonalProject(NewProjectId, laDraft[1].user, laDraft[1].id)}
            /\ laRelations' = laRelations \cup {OwnerRelation(NewProjectId, laDraft[1].id)}
            /\ laWrites' = Append(laWrites, "userRepository.createUserWithProject")
            /\ laPc' = "returned"
            /\ UNCHANGED <<laErrored, laThrew>>
       ELSE Caught /\ UNCHANGED <<laUsers, laProjects, laRelations, laWrites>>
    /\ UNCHANGED <<isLocal, laDraft, laRuns, laPrevOk, laStart>>
    /\ UNCHANGED otherThanAdmin

AdminNext ==
    \/ Startup
    \/ \E ok \in BOOLEAN : FindAdmin(ok)
    \/ \E ok \in BOOLEAN : SaveUser(ok)
    \/ \E ok \in BOOLEAN : GetProject(ok)
    \/ \E ok \in BOOLEAN : SaveProject(ok)
    \/ \E ok \in BOOLEAN : SaveRelation(ok)
    \/ \E ok \in BOOLEAN : FindOwner(ok)
    \/ \E ok \in BOOLEAN : HashPassword(ok)
    \/ \E ok \in BOOLEAN : CreateUserWithProject(ok)

SpecAdmin == AdminInit /\ [][AdminNext]_vars

\* The tables are as they were when the current run started.
TablesUntouched ==
    /\ laUsers = laStart[1].users
    /\ laProjects = laStart[1].projects
    /\ laRelations = laStart[1].relations

\* C21: with the local-mode flag off ensureLocalAdminExists returns normally
\* and has written nothing: no user, project or project relation is created
\* or saved, whatever the database held.
C21_FlagOffNoWrites ==
    (~isLocal /\ laStart # None) =>
        /\ laPc = "returned"
        /\ TablesUntouched
        /\ laWrites = << >>
        /\ ~laErrored
        /\ ~laThrew

\* Flag off, a database with an owner that is not the admin and has no
\* personal project.
C21_Witness ==
    /\ ~isLocal
    /\ laPc = "returned"
    /\ Len(laUsers) = 2
    /\ UsersWithEmail(laUsers, AdminEmail) = {}
    /\ laProjects = {}

\* C22: with the flag on and no repository error, when ensureLocalAdminExists
\* has returned exactly one user has the admin email, that user has the
\* global owner role and owns a personal project.
C22_OneUsableAdmin ==
    (isLocal /\ laPc = "returned" /\ ~laErrored) =>
        /\ Cardinality(UsersWithEmail(laUsers, AdminEmail)) = 1
        /\ \A i \in UsersWithEmail(laUsers, AdminEmail) :
              /\ laUsers[i].role = OwnerRole
              /\ HasPersonalProject(laProjects, laRelations, i)

\* An owner without a personal project was repurposed and given one.
C22_Witness ==
    /\ isLocal
    /\ laPc = "returned"
    /\ ~laErrored
    /\ laRuns = 1
    /\ UsersWithEmail(laStart[1].users, AdminEmail) = {}
    /\ laStart[1].projects = {}
    /\ laWrites = <<"userRepository.save", "projectRepository.save",
                    "projectRelationRepository.save">>

\* C23: with the flag on, a run that follows a run without an error leaves
\* the users, projects and project relations as it found them and performs
\* no save or create.
C23_Idempotent ==
    (isLocal /\ laStart # None /\ laPrevOk) =>
        /\ TablesUntouched
        /\ laWrites = << >>

\* The second startup has returned after a first one that created the admin.
C23_Witness ==
    /\ isLocal
    /\ laRuns = 2
    /\ laPrevOk
    /\ laPc = "returned"
    /\ ~laErrored
    /\ laUsers = <<NewAdmin>>

\* What the repurposed owner keeps: its password when set, its names when
\* non-empty, its role.
KeptByRepurposing(before, after) ==
    /\ after.email = AdminEmail
    /\ after.role = before.role
    /\ after.password = IF before.password = <<NoPassword>> THEN Hash("admin")
                        ELSE before.password
    /\ after.firstName = IF before.firstName \in {NoName, ""} THEN "Admin"
                         ELSE before.firstName
    /\ after.lastName = IF before.lastName \in {NoName, ""} THEN "User"
                        ELSE before.lastName

\* C24: a run adds a user only when no user had the admin email and no user
\* was an owner; otherwise the number of users does not change: when a user
\* had the email no other user is touched, else one owner is repurposed in
\* place, keeping its id, its password when set and its names when
\* non-empty.
C24_PolicyOrder ==
    (isLocal /\ laStart # None) =>
        LET before == laStart[1].users
            hadEmail == UsersWithEmail(before, AdminEmail)
            hadOwner == UsersWithRole(before, OwnerRole)
            Others(i) == \A j \in 1..Len(before) : j # i => laUsers[j] = before[j]
        IN  /\ Len(laUsers) \in {Len(before), Len(before) + 1}
            /\ \A j \in 1..Len(before) : laUsers[j] # before[j] => Len(laUsers) = Len(before)
            /\ Len(laUsers) > Len(before) => (hadEmail = {} /\ hadOwner = {})
            /\ (hadEmail # {} \/ hadOwner # {}) => Len(laUsers) = Len(before)
            /\ hadEmail # {} => \A i \in hadEmail : Others(i)
            /\ (hadEmail = {} /\ hadOwner # {}) =>
                  \/ laUsers = before
                  \/ \E o \in hadOwner : Others(o) /\ KeptByRepurposing(before[o], laUsers[o])

\* The second of two owners, with a password and a first name, was
\* repurposed; the first owner is as it was.
C24_Witness ==
    /\ isLocal
    /\ laPc = "returned"
    /\ laRuns = 1
    /\ Len(laUsers) = 2
    /\ laStart[1].users[1].role = OwnerRole
    /\ laUsers[1] = laStart[1].users[1]
    /\ laStart[1].users[2].email = "pat@x"
    /\ laUsers[2].email = AdminEmail
    /\ laUsers[2].firstName = "Pat"
    /\ laUsers[2].lastName = "User"
    /\ laUsers[2].password = Hash("secret")

\* C25: no error raised by a repository or password call leaves
\* ensureLocalAdminExists: it is caught and logged, and the function returns
\* normally.
C25_ErrorsSwallowed ==
    /\ ~laThrew
    /\ laPc # "crashed"
    /\ laErrored => laPc = "returned"

\* The relation save failed after the project was saved: the error
\* ensurePersonalProjectExists re-threw was caught.
C25_Witness ==
    /\ laErrored
    /\ laPc = "returned"
    /\ laWrites = <<"projectRepository.save">>
    /\ ~laThrew

(***************************************************************************)
(* guestMiddleware(to, _from, next), the guard of the guest-only routes.   *)
(* A string is the sequence of its parts; the redirect query parameter is  *)
(* what the router parsed from the address: missing, null (a key without a *)
(* value), a string, or an array when the key is given more than once.     *)
(***************************************************************************)
Schemes == {"http", "https"}
Hosts == {"own.example", "evil.example"}

Origin(scheme, host) == <<scheme, "://", host>>

\* The strings the parameter can hold.
RedirectStrings ==
    {<< >>, <<"/", "workflows">>, <<"/", "/evil.example">>, <<"workflows">>,
     <<"javascript", ":", "alert(1)">>}
        \cup {Origin(sch, h) \o rest : sch \in Schemes, h \in Hosts,
                                       rest \in {<< >>, <<"/", "workflows">>}}

QueryValues ==
    {[kind |-> "missing", text |-> << >>], [kind |-> "null", text |-> << >>],
     [kind |-> "array", text |-> <<"/", "workflows">>]}
        \cup {[kind |-> "string", text |-> t] : t \in RedirectStrings}

\* (to.query.redirect as string) ?? ''
Coalesce(q) == IF q.kind \in {"missing", "null"} THEN [kind |-> "string", text |-> << >>] ELSE q

\* redirect.startsWith('/')
StartsWithSlash(text) == text # << >> /\ Head(text) = "/"

\* new URL(redirect): the origin of an absolute http(s) URL; a TypeError for
\* a string without a scheme; the opaque origin for other schemes.
ParseUrl(text) ==
    IF Len(text) >= 3 /\ text[1] \in Schemes /\ text[2] = "://"
    THEN [ok |-> TRUE, origin |-> SubSeq(text, 1, 3)]
    ELSE IF Len(text) >= 2 /\ text[2] = ":"
    THEN [ok |-> TRUE, origin |-> <<"null">>]
    ELSE [ok |-> FALSE, origin |-> << >>]

HomepageRoute == [route |-> "HOMEPAGE", path |-> << >>]
PathRoute(text) == [route |-> "", path |-> text]

GuestInit ==
    /\ gRedirect \in {Some(q) : q \in QueryValues}
    /\ gOrigin \in {Some(Origin(sch, h)) : sch \in Schemes, h \in Hosts}
    /\ gNext = << >>
    /\ gState = "idle"
    /\ OnlyGuest

\* The router runs the guard for a navigation.  An array has no startsWith:
\* the call throws outside the try block and next is not called.
Navigate ==
    /\ gState = "idle"
    /\ LET q == Coalesce(gRedirect[1])
           redirect == q.text
           url == ParseUrl(redirect)
       IN  IF q.kind = "array"
           THEN /\ gState' = "threw"
                /\ UNCHANGED gNext
           ELSE /\ gState' = "returned"
                /\ gNext' = IF StartsWithSlash(redirect) THEN <<PathRoute(redirect)>>
                            ELSE IF url.ok /\ url.origin = gOrigin[1]
                            THEN <<PathRoute(redirect)>>
                            ELSE <<HomepageRoute>>
    /\ UNCHANGED <<gRedirect, gOrigin>>
    /\ UNCHANGED otherThanGuest

GuestNext == Navigate

SpecGuest == GuestInit /\ [][GuestNext]_vars

\* The redirect parameter is a string that starts with '/' or parses as a
\* URL of the page's own origin.
RedirectAllowed ==
    /\ gRedirect[1].kind = "string"
    /\ \/ StartsWithSlash(gRedirect[1].text)
       \/ /\ ParseUrl(gRedirect[1].text).ok
          /\ ParseUrl(gRedirect[1].text).origin = gOrigin[1]

\* C26: for every navigation guestMiddleware calls next exactly once, with
\* the redirect parameter when it starts with '/' or parses as a URL of the
\* page's own origin and with the homepage route in every other case.
C26_AlwaysRedirects ==
    gState # "idle" =>
        /\ gState = "returned"
        /\ Len(gNext) = 1
        /\ gNext[1] = IF RedirectAllowed THEN PathRoute(gRedirect[1].text) ELSE HomepageRoute

(***************************************************************************)
(* scripts/release-portable.mjs: the top-level statements of the script,   *)
(* one action per step that can end it.                                    *)
(***************************************************************************)
EnvValues == {"true", "1", "undefined"}

\* What the user types at the prompt; Closed is an input stream that ends
\* without a line, which leaves the question unanswered.
Closed == <<"EOF">>
Answers ==
    {<<"y">>, <<"Y">>, <<"y", "e", "s">>, <<"Y", "e", "s">>, <<"n">>, << >>,
     <<" ", "y">>, Closed}

RelEnvs ==
    [CI : EnvValues, SKIP_CONFIRM : EnvValues, hasGH : BOOLEAN,
     isAuthenticated : BOOLEAN, archiveExists : BOOLEAN, answer : Answers]

\* String.prototype.toLowerCase
LowerChar(ch) == CASE ch = "Y" -> "y" [] ch = "E" -> "e" [] ch = "S" -> "s" [] OTHER -> ch
ToLowerCase(text) == [i \in 1..Len(text) |-> LowerChar(text[i])]

isCI == relEnv[1].CI = "true"

RelInit ==
    /\ relEnv \in {Some(e) : e \in RelEnvs}
    /\ relPc = "start"
    /\ relLog = << >>
    /\ relExit = None
    /\ OnlyRel

Exit(code) ==
    /\ relPc' = "exited"
    /\ relExit' = Some(code)

\* A statement outside any try block throws: the process ends with code 1.
Crash == Exit(1)

checkGitHubCLI ==
    /\ relPc = "start"
    /\ relLog' = Append(relLog, "gh --version")
    /\ IF relEnv[1].hasGH
       THEN relPc' = "auth" /\ UNCHANGED relExit
       ELSE Exit(1)
    /\ UNCHANGED relEnv
    /\ UNCHANGED otherThanRel

checkGitHubAuth ==
    /\ relPc = "auth"
    /\ relLog' = Append(relLog, "gh auth status")
    /\ IF relEnv[1].isAuthenticated
       THEN relPc' = "version" /\ UNCHANGED relExit
       ELSE Exit(1)
    /\ UNCHANGED relEnv
    /\ UNCHANGED otherThanRel

getVersion(ok) ==
    /\ relPc = "version"
    /\ relLog' = Append(relLog, "readJson package.json")
    /\ IF ok
       THEN relPc' = "archive" /\ UNCHANGED relExit
       ELSE Crash
    /\ UNCHANGED relEnv
    /\ UNCHANGED otherThanRel

CheckArchive ==
    /\ relPc = "archive"
    /\ relLog' = Append(relLog, "pathExists archive")
    /\ IF relEnv[1].archiveExists
       THEN relPc' = "notes" /\ UNCHANGED relExit
       ELSE Exit(1)
    /\ UNCHANGED relEnv
    /\ UNCHANGED otherThanRel

\* du, getRepoInfo, getCurrentBranch and the writing of release-notes.md.
PrepareNotes(ok) ==
    /\ relPc = "notes"
    /\ relLog' = Append(relLog, "write release-notes.md")
    /\ IF ok
       THEN relPc' = "confirm" /\ UNCHANGED relExit
       ELSE Crash
    /\ UNCHANGED relEnv
    /\ UNCHANGED otherThanRel

\* The confirmation taking an empty answer for a yes.
ConfirmDefaultsToYes ==
    /\ relPc = "confirm"
    /\ IF ~isCI /\ relEnv[1].SKIP_CONFIRM # "true"
       THEN /\ relLog' = Append(relLog, "question")
            /\ IF relEnv[1].answer = Closed
               THEN Exit(0)
               ELSE IF ToLowerCase(relEnv[1].answer) \notin {<<"y">>, <<"y", "e", "s">>, << >>}
               THEN Exit(0)
               ELSE relPc' = "create" /\ UNCHANGED relExit
       ELSE /\ relPc' = "create"
            /\ UNCHANGED <<relLog, relExit>>
    /\ UNCHANGED relEnv
    /\ UNCHANGED otherThanRel

Confirm ==
    /\ relPc = "confirm"
    /\ IF ~isCI /\ relEnv[1].SKIP_CONFIRM # "true"
       THEN /\ relLog' = Append(relLog, "question")
            /\ IF relEnv[1].answer = Closed
               THEN Exit(0)
               ELSE IF /\ ToLowerCase(relEnv[1].answer) # <<"y">>
                       /\ ToLowerCase(relEnv[1].answer) # <<"y", "e", "s">>
               THEN Exit(0)
               ELSE relPc' = "create" /\ UNCHANGED relExit
       ELSE /\ relPc' = "create"
            /\ UNCHANGED <<relLog, relExit>>
    /\ UNCHANGED relEnv
    /\ UNCHANGED otherThanRel

CreateRelease(ok) ==
    /\ relPc = "create"
    /\ relLog' = Append(relLog, "gh release create")
    /\ Exit(IF ok THEN 0 ELSE 1)
    /\ UNCHANGED relEnv
    /\ UNCHANGED otherThanRel

RelNext ==
    \/ checkGitHubCLI
    \/ checkGitHubAuth
    \/ \E ok \in BOOLEAN : getVersion(ok)
    \/ CheckArchive
    \/ \E ok \in BOOLEAN : PrepareNotes(ok)
    \/ Confirm
    \/ \E ok \in BOOLEAN : CreateRelease(ok)

SpecRel == RelInit /\ [][RelNext]_vars

\* The place of a command in the log, 0 when it was not run.
Place(command) ==
    IF \E i \in 1..Len(relLog) : relLog[i] = command
    THEN CHOOSE i \in 1..Len(relLog) : relLog[i] = command
    ELSE 0

ReleaseCreated == Place("gh release create") # 0

Confirmed ==
    \/ relEnv[1].CI = "true"
    \/ relEnv[1].SKIP_CONFIRM = "true"
    \/ /\ Place("question") # 0
       /\ Place("question") < Place("gh release create")
       /\ ToLowerCase(relEnv[1].answer) \in {<<"y">>, <<"y", "e", "s">>}

\* C27: 'gh release create' runs only after the GitHub CLI was found, then
\* found authenticated, then the portable archive was found, in this order,
\* and, unless CI or SKIP_CONFIRM is 'true', only after the user answered y
\* or yes; a script that ended on a failed check or a refusal created no
\* release.
C27_ReleaseOnlyAfterChecks ==
    /\ ReleaseCreated =>
          /\ relEnv[1].hasGH /\ relEnv[1].isAuthenticated /\ relEnv[1].archiveExists
          /\ 0 < Place("gh --version")
          /\ Place("gh --version") < Place("gh auth status")
          /\ Place("gh auth status") < Place("pathExists archive")
          /\ Place("pathExists archive") < Place("gh release create")
          /\ Confirmed
    /\ (relPc = "exited" /\ ~(relEnv[1].hasGH /\ relEnv[1].isAuthenticated
                               /\ relEnv[1].archiveExists /\ Confirmed))
          => ~ReleaseCreated

\* A release was created after the user typed an upper-case Y at the prompt.
C27_Witness ==
    /\ ReleaseCreated
    /\ Place("question") # 0
    /\ relEnv[1].answer = <<"Y">>

(***************************************************************************)
(* packages/cli/src/commands/execute-file.ts: ExecuteFile.run().  The      *)
(* synchronous validation is one step; every awaited call is a step that   *)
(* can reject.                                                             *)
(***************************************************************************)
\* flags.file: not given, the empty string, or a path.
FileFlags == {[given |-> FALSE, path |-> ""], [given |-> TRUE, path |-> ""],
              [given |-> TRUE, path |-> "workflow.json"]}

IdValues ==
    {[kind |-> "missing", text |-> ""], [kind |-> "number", text |-> "7"],
     [kind |-> "string", text |-> ""], [kind |-> "string", text |-> "wf1"],
     [kind |-> "string", text |-> "wf2"]}

\* nodes: missing, a string, or an array of node types.
NodesValues ==
    {[kind |-> "missing", items |-> << >>], [kind |-> "string", items |-> << >>],
     [kind |-> "array", items |-> << >>], [kind |-> "array", items |-> <<"set">>],
     [kind |-> "array", items |-> <<"manualTrigger", "set">>]}

ConnectionsValues == {"missing", "null", "string", "array", "object"}

\* The JSON documents a file can hold: null, a number, or an object.
JsonDocuments ==
    {[type |-> t, id |-> [kind |-> "missing", text |-> ""],
      nodes |-> [kind |-> "missing", items |-> << >>], connections |-> "missing",
      active |-> FALSE] : t \in {"null", "number"}}
        \cup [type : {"object"}, id : IdValues, nodes : NodesValues,
              connections : ConnectionsValues, active : BOOLEAN]

\* A file is its text: well-formed JSON of a document, or something else.
FileContents ==
    {[wellFormed |-> FALSE, value |-> CHOOSE d \in JsonDocuments : d.type = "null"]}
        \cup {[wellFormed |-> TRUE, value |-> d] : d \in JsonDocuments}

\* The row of the workflow another run or the editor stored under wf1.
StoredRow ==
    [type |-> "object", id |-> [kind |-> "string", text |-> "wf1"],
     nodes |-> [kind |-> "array", items |-> <<"executeWorkflowTrigger">>],
     connections |-> "object", active |-> TRUE]

OwnerShare(row) == [role |-> "workflow:owner", projectId |-> "personal", workflow |-> row.id]

UserError == "UserError"
TypeError == "TypeError"
UnexpectedError == "UnexpectedError"
OperationalError == "Error"
ExecutionError == "ExecutionError"

\* jsonParse(fileContent)
jsonParse(content) == IF content.wellFormed THEN Returned(content.value) ELSE Raised

\* isWorkflowIdValid(workflowData.id)
isWorkflowIdValid(id) == id.kind = "string" /\ id.text # ""

StartingNodeTypes == {"executeWorkflowTrigger", "manualTrigger", "start"}

\* findCliWorkflowStart(nodes) finds a node to start from.
HasCliWorkflowStart(nodes) == \E i \in 1..Len(nodes.items) : nodes.items[i] \in StartingNodeTypes

generateNanoId == [kind |-> "string", text |-> "nano"]

ExecInit ==
    /\ xFlags \in {Some(f) : f \in FileFlags}
    /\ xDisk \in {None} \cup {Some(content) : content \in FileContents}
    /\ \/ xStored = {} /\ xShared = {}
       \/ xStored = {StoredRow} /\ xShared = {OwnerShare(StoredRow)}
    /\ xPc = "validate"
    /\ xError = None
    /\ xWorkflowData = None
    /\ xRunData = None
    /\ xLogged = << >>
    /\ xCreated = {}
    /\ OnlyExec

Throw(error) ==
    /\ xPc' = "threw"
    /\ xError' = Some(error)

\* Lines 46-79: what the validation throws, or "" when it passes.
ValidationError ==
    IF ~xFlags[1].given \/ xFlags[1].path = "" THEN UserError
    ELSE IF xDisk = None THEN UserError
    ELSE IF ~jsonParse(xDisk[1]).ok THEN UserError
    ELSE LET workflowData == jsonParse(xDisk[1]).value
         IN  IF workflowData.type = "null" THEN TypeError
             ELSE IF workflowData.nodes.kind # "array" THEN UserError
             ELSE IF workflowData.connections \notin {"array", "object"} THEN UserError
             ELSE ""

Validate ==
    /\ xPc = "validate"
    /\ IF ValidationError # ""
       THEN /\ Throw(ValidationError)
            /\ UNCHANGED xWorkflowData
       ELSE /\ xPc' = "owner"
            /\ xWorkflowData' = Some(jsonParse(xDisk[1]).value)
            /\ UNCHANGED xError
    /\ UNCHANGED <<xFlags, xDisk, xStored, xShared, xRunData, xLogged, xCreated>>
    /\ UNCHANGED otherThanExec

getInstanceOwner(ok) ==
    /\ xPc = "owner"
    /\ IF ok
       THEN xPc' = "find" /\ UNCHANGED xError
       ELSE Throw(OperationalError)
    /\ UNCHANGED <<xFlags, xDisk, xStored, xShared, xWorkflowData, xRunData, xLogged, xCreated>>
    /\ UNCHANGED otherThanExec

\* Lines 86-110 up to the call of createTemporaryWorkflow.
FindExisting(ok) ==
    /\ xPc = "find"
    /\ IF isWorkflowIdValid(xWorkflowData[1].id)
       THEN IF ~ok
            THEN Throw(OperationalError) /\ UNCHANGED xWorkflowData
            ELSE IF \E found \in xStored : found.id = xWorkflowData[1].id
            THEN /\ xWorkflowData' =
                        Some(CHOOSE found \in xStored : found.id = xWorkflowData[1].id)
                 /\ xPc' = "start"
                 /\ UNCHANGED xError
            ELSE /\ xPc' = "create"
                 /\ UNCHANGED <<xError, xWorkflowData>>
       ELSE /\ xWorkflowData' = Some([xWorkflowData[1] EXCEPT !.id = generateNanoId])
            /\ xPc' = "create"
            /\ UNCHANGED xError
    /\ UNCHANGED <<xFlags, xDisk, xStored, xShared, xRunData, xLogged, xCreated>>
    /\ UNCHANGED otherThanExec

\* workflowRepository.create({...workflowData, active: false, ...})
WorkflowEntity(workflowData) == [workflowData EXCEPT !.active = FALSE]

\* The two saves without a transaction around them: a failure of the second
\* leaves the first.
createTemporaryWorkflowNoTransaction(ok) ==
    /\ xPc = "create"
    /\ xStored' = xStored \cup {WorkflowEntity(xWorkflowData[1])}
    /\ xCreated' = xCreated \cup {xWorkflowData[1].id}
    /\ IF ok
       THEN /\ xShared' = xShared \cup {OwnerShare(WorkflowEntity(xWorkflowData[1]))}
            /\ xPc' = "start"
            /\ UNCHANGED xError
       ELSE /\ Throw(OperationalError)
            /\ UNCHANGED xShared
    /\ UNCHANGED <<xFlags, xDisk, xWorkflowData, xRunData, xLogged>>
    /\ UNCHANGED otherThanExec

\* dbManager.transaction(...): commits both saves or, when any statement in
\* it rejects, none.
createTemporaryWorkflow(ok) ==
    /\ xPc = "create"
    /\ IF ok
       THEN /\ xStored' = xStored \cup {WorkflowEntity(xWorkflowData[1])}
            /\ xShared' = xShared \cup {OwnerShare(WorkflowEntity(xWorkflowData[1]))}
            /\ xCreated' = xCreated \cup {xWorkflowData[1].id}
            /\ xPc' = "start"
            /\ UNCHANGED xError
       ELSE /\ Throw(OperationalError)
            /\ UNCHANGED <<xStored, xShared, xCreated>>
    /\ UNCHANGED <<xFlags, xDisk, xWorkflowData, xRunData, xLogged>>
    /\ UNCHANGED otherThanExec

\* Lines 120-141: findCliWorkflowStart and workflowRunner.run(runData).
StartExecution(ok) ==
    /\ xPc = "start"
    /\ IF ~HasCliWorkflowStart(xWorkflowData[1].nodes) \/ ~ok
       THEN Throw(OperationalError) /\ UNCHANGED xRunData
       ELSE /\ xRunData' = Some([executionMode |-> "cli", workflowData |-> xWorkflowData[1]])
            /\ xPc' = "running"
            /\ UNCHANGED xError
    /\ UNCHANGED <<xFlags, xDisk, xStored, xShared, xWorkflowData, xLogged, xCreated>>
    /\ UNCHANGED otherThanExec

ExecutionOutcomes == {"undefined", "error", "success"}

\* Lines 143-166: getPostExecutePromise(executionId) settles.
ExecutionFinishes(outcome) ==
    /\ xPc = "running"
    /\ CASE outcome = "undefined" -> Throw(UnexpectedError) /\ UNCHANGED xLogged
         [] outcome = "error" -> Throw(ExecutionError) /\ UNCHANGED xLogged
         [] OTHER -> /\ xPc' = "returned"
                     /\ xLogged' = <<"Execution was successful:", "data">>
                     /\ UNCHANGED xError
    /\ UNCHANGED <<xFlags, xDisk, xStored, xShared, xWorkflowData, xRunData, xCreated>>
    /\ UNCHANGED otherThanExec

ExecNext ==
    \/ Validate
    \/ \E ok \in BOOLEAN : getInstanceOwner(ok)
    \/ \E ok \in BOOLEAN : FindExisting(ok)
    \/ \E ok \in BOOLEAN : createTemporaryWorkflow(ok)
    \/ \E ok \in BOOLEAN : StartExecution(ok)
    \/ \E outcome \in ExecutionOutcomes : ExecutionFinishes(outcome)

SpecExec == ExecInit /\ [][ExecNext]_vars

\* The document of the file, when the file holds one.
FileDocument == xDisk[1].value

\* One of the cases the claim lists: no --file, no such file, content that
\* is not JSON, nodes missing or not an array, connections missing or not an
\* object.
InvalidInput ==
    \/ ~xFlags[1].given
    \/ xDisk = None
    \/ ~xDisk[1].wellFormed
    \/ FileDocument.type # "object"
    \/ FileDocument.nodes.kind # "array"
    \/ FileDocument.connections \notin {"array", "object"}

\* C28: on an invalid input run() throws a UserError, having written
\* nothing to the database and started no execution; and a started execution
\* that ends with an error in its result data makes run() throw without
\* printing a success.
C28_ValidatesBeforeActing ==
    /\ (xPc # "validate" /\ InvalidInput) =>
          /\ xError = Some(UserError)
          /\ xCreated = {}
          /\ xRunData = None
    /\ xError = Some(ExecutionError) => xLogged = << >>

\* The file's id names a stored workflow.
FileIdStored ==
    /\ isWorkflowIdValid(FileDocument.id)
    /\ \E row \in xStored : row.id = FileDocument.id /\ row.id \notin xCreated

\* C30: an execution starts only after run() saved a workflow row, inactive
\* and together with its owner sharing record, exactly when the file has no
\* valid id or its id is not stored; rows and sharing records are saved
\* together or not at all; with a stored id nothing is saved and the stored
\* workflow is what runs.
C30_RowExactlyWhenNotStored ==
    /\ xRunData # None =>
          /\ (xCreated # {}) <=> ~FileIdStored
          /\ ~FileIdStored =>
                /\ xCreated = {xRunData[1].workflowData.id}
                /\ xRunData[1].workflowData.nodes = FileDocument.nodes
          /\ FileIdStored =>
                /\ xRunData[1].workflowData = StoredRow
                /\ xStored = {StoredRow}
                /\ xShared = {OwnerShare(StoredRow)}
    /\ \A id \in xCreated :
          /\ \E row \in xStored : row.id = id /\ ~row.active
          /\ \E share \in xShared : share.workflow = id /\ share.role = "workflow:owner"
    /\ \A row \in xStored : \E share \in xShared : share.workflow = row.id
    /\ xPc \in {"validate", "owner", "find", "create"} => xCreated = {}

\* An execution of a file marked active, whose id was not stored, has started.
C30_Witness ==
    /\ xRunData # None
    /\ xCreated # {}
    /\ FileDocument.active
    /\ xStored # {}
    /\ StoredRow \in xStored
    /\ FileDocument.id.text = "wf2"

(***************************************************************************)
(* The publish scripts: scripts/publish-npm.mjs, its variant with OTP and  *)
(* a git check, and publish-github.mjs.  Every loop iteration is a step;   *)
(* a file system call outside a try block that throws rejects main().      *)
(***************************************************************************)
MaxPackages == 2

\* A package directory is known by its place in the listing of packages/.
PackageDirs == 1..MaxPackages

PublishScripts == {"publish-npm", "publish-npm-otp", "publish-github"}

Scope == "@atom8n"

\* A package.json: how its text is laid out and what it says.
PackageContents ==
    {[layout |-> "tabs", name |-> n, private |-> FALSE, workspaceDep |-> FALSE] :
        n \in {<<"@n8n/", "config">>, <<"n8n", "-core">>, <<"lodash">>}}
        \cup {[layout |-> "tabs", name |-> <<"n8n", "-core">>, private |-> TRUE,
               workspaceDep |-> FALSE],
              [layout |-> "tabs", name |-> <<"n8n", "-core">>, private |-> FALSE,
               workspaceDep |-> TRUE]}

transformName(name) ==
    IF name = << >> THEN name
    ELSE IF Head(name) = "@n8n/" THEN <<Scope, "/">> \o Tail(name)
    ELSE IF Head(name) = "n8n" THEN <<Scope, "/">> \o name
    ELSE name

\* JSON.stringify(pkg, null, 2) + '\n' of the renamed package with its
\* workspace: dependencies resolved.
Rewritten(content) ==
    [layout |-> "two spaces", name |-> transformName(content.name),
     private |-> content.private, workspaceDep |-> FALSE]

TokenLine(token) == <<"//npm.pkg.github.com/:_authToken=", token>>

NpmrcContents == {None, Some(<<<<"registry=", "https://registry.npmjs.org">>>>)}

PubInit ==
    /\ pubScript \in PublishScripts
    /\ pubToken \in {None, Some("ghp_token")}
    /\ pubScript # "publish-github" => pubToken = None
    /\ pubDirty \in BOOLEAN
    /\ pubScript # "publish-npm-otp" => pubDirty = FALSE
    /\ pubFiles \in [PackageDirs -> PackageContents]
    /\ pubNpmrc \in [PackageDirs -> NpmrcContents]
    /\ originalContents = << >>
    /\ modifiedNpmrcFiles = << >>
    /\ createdNpmrcFiles = << >>
    /\ pubPc = "start"
    /\ pubI = 0
    /\ pubCounts = <<0, 0, 0>>
    /\ pubBefore = <<pubFiles, pubNpmrc>>
    /\ OnlyPub

\* The entries Step 1 backs up: every package that is not private.
RECURSIVE BackUp(_)
BackUp(dir) ==
    IF dir > MaxPackages THEN << >>
    ELSE IF pubFiles[dir].private \/ pubFiles[dir].name = << >>
    THEN BackUp(dir + 1)
    ELSE <<<<dir, pubFiles[dir]>>>> \o BackUp(dir + 1)

\* The next loop, or the one after it when there is nothing to loop over.
Enter(loop) ==
    /\ pubPc' = loop
    /\ pubI' = 1

\* checkGitClean, the token check and Step 1.
PubStart ==
    /\ pubPc = "start"
    /\ IF \/ pubScript = "publish-npm-otp" /\ pubDirty
          \/ pubScript = "publish-github" /\ pubToken = None
       THEN /\ pubPc' = "exited"
            /\ UNCHANGED <<originalContents, pubI>>
       ELSE /\ originalContents' = BackUp(1)
            /\ Enter("rewrite")
    /\ UNCHANGED <<pubScript, pubToken, pubDirty, pubFiles, pubNpmrc, modifiedNpmrcFiles,
                   createdNpmrcFiles, pubCounts, pubBefore>>
    /\ UNCHANGED otherThanPub

\* One iteration of Step 2, or the end of the loop.
RewriteOne(ok) ==
    /\ pubPc = "rewrite"
    /\ IF pubI > Len(originalContents)
       THEN /\ Enter("publish")
            /\ UNCHANGED <<pubFiles, pubNpmrc, modifiedNpmrcFiles, createdNpmrcFiles>>
       ELSE LET dir == originalContents[pubI][1]
                originalContent == originalContents[pubI][2]
            IN  IF ~ok
                THEN /\ pubPc' = "rejected"
                     /\ UNCHANGED <<pubI, pubFiles, pubNpmrc, modifiedNpmrcFiles,
                                    createdNpmrcFiles>>
                ELSE /\ pubFiles' = [pubFiles EXCEPT ![dir] = Rewritten(originalContent)]
                     /\ pubI' = pubI + 1
                     /\ UNCHANGED pubPc
                     /\ IF pubScript # "publish-github"
                        THEN UNCHANGED <<pubNpmrc, modifiedNpmrcFiles, createdNpmrcFiles>>
                        ELSE IF pubNpmrc[dir] # None
                        THEN /\ modifiedNpmrcFiles' =
                                    Append(modifiedNpmrcFiles, <<dir, pubNpmrc[dir][1]>>)
                             /\ pubNpmrc' = [pubNpmrc EXCEPT ![dir] =
                                    Some(Append(pubNpmrc[dir][1], TokenLine(pubToken[1])))]
                             /\ UNCHANGED createdNpmrcFiles
                        ELSE /\ pubNpmrc' = [pubNpmrc EXCEPT ![dir] =
                                    Some(<<TokenLine(pubToken[1])>>)]
                             /\ createdNpmrcFiles' = Append(createdNpmrcFiles, dir)
                             /\ UNCHANGED modifiedNpmrcFiles
    /\ UNCHANGED <<pubScript, pubToken, pubDirty, originalContents, pubCounts, pubBefore>>
    /\ UNCHANGED otherThanPub

PublishOutcomes == {"published", "already published", "failed"}

\* One iteration of Step 3: npm publish succeeds, or throws and is counted.
PublishOne(outcome) ==
    /\ pubPc = "publish"
    /\ IF pubI > Len(originalContents)
       THEN /\ Enter("restore")
            /\ UNCHANGED pubCounts
       ELSE /\ pubI' = pubI + 1
            /\ pubCounts' =
                  CASE outcome = "published" -> [pubCounts EXCEPT ![1] = @ + 1]
                    [] outcome = "already published" -> [pubCounts EXCEPT ![2] = @ + 1]
                    [] OTHER -> [pubCounts EXCEPT ![3] = @ + 1]
            /\ UNCHANGED pubPc
    /\ UNCHANGED <<pubScript, pubToken, pubDirty, pubFiles, pubNpmrc, originalContents,
                   modifiedNpmrcFiles, createdNpmrcFiles, pubBefore>>
    /\ UNCHANGED otherThanPub

\* One iteration of Step 4.
RestoreOne(ok) ==
    /\ pubPc = "restore"
    /\ IF pubI > Len(originalContents)
       THEN /\ IF pubScript = "publish-github" THEN Enter("cleanup modified")
               ELSE pubPc' = "done" /\ UNCHANGED pubI
            /\ UNCHANGED pubFiles
       ELSE IF ~ok
       THEN /\ pubPc' = "rejected"
            /\ UNCHANGED <<pubI, pubFiles>>
       ELSE /\ pubFiles' = [pubFiles EXCEPT ![originalContents[pubI][1]] =
                                originalContents[pubI][2]]
            /\ pubI' = pubI + 1
            /\ UNCHANGED pubPc
    /\ UNCHANGED <<pubScript, pubToken, pubDirty, pubNpmrc, originalContents,
                   modifiedNpmrcFiles, createdNpmrcFiles, pubCounts, pubBefore>>
    /\ UNCHANGED otherThanPub

\* Step 5, first loop: a failed write is warned about and the loop goes on.
RestoreNpmrc(ok) ==
    /\ pubPc = "cleanup modified"
    /\ IF pubI > Len(modifiedNpmrcFiles)
       THEN /\ Enter("cleanup created")
            /\ UNCHANGED pubNpmrc
       ELSE /\ pubNpmrc' = IF ok
                           THEN [pubNpmrc EXCEPT ![modifiedNpmrcFiles[pubI][1]] =
                                    Some(modifiedNpmrcFiles[pubI][2])]
                           ELSE pubNpmrc
            /\ pubI' = pubI + 1
            /\ UNCHANGED pubPc
    /\ UNCHANGED <<pubScript, pubToken, pubDirty, pubFiles, originalContents,
                   modifiedNpmrcFiles, createdNpmrcFiles, pubCounts, pubBefore>>
    /\ UNCHANGED otherThanPub

\* Step 5, second loop: a failed unlink is ignored.
UnlinkNpmrc(ok) ==
    /\ pubPc = "cleanup created"
    /\ IF pubI > Len(createdNpmrcFiles)
       THEN /\ pubPc' = "done"
            /\ UNCHANGED <<pubI, pubNpmrc>>
       ELSE /\ pubNpmrc' = IF ok
                           THEN [pubNpmrc EXCEPT ![createdNpmrcFiles[pubI]] = None]
                           ELSE pubNpmrc
            /\ pubI' = pubI + 1
            /\ UNCHANGED pubPc
    /\ UNCHANGED <<pubScript, pubToken, pubDirty, pubFiles, originalContents,
                   modifiedNpmrcFiles, createdNpmrcFiles, pubCounts, pubBefore>>
    /\ UNCHANGED otherThanPub

PubNext ==
    \/ PubStart
    \/ \E ok \in BOOLEAN : RewriteOne(ok)
    \/ \E outcome \in PublishOutcomes : PublishOne(outcome)
    \/ \E ok \in BOOLEAN : RestoreOne(ok)
    \/ \E ok \in BOOLEAN : RestoreNpmrc(ok)
    \/ \E ok \in BOOLEAN : UnlinkNpmrc(ok)

SpecPub == PubInit /\ [][PubNext]_vars

\* C29: when main() of a publish script has run to completion, every
\* package.json and every .npmrc is as it was when the script started (a
\* created .npmrc is gone), whatever the outcomes of the npm publish calls.
C29_TreeRestored ==
    pubPc = "done" =>
        /\ pubFiles = pubBefore[1]
        /\ pubNpmrc = pubBefore[2]

====
